---- MODULE Spec2Model ----
(***************************************************************************)
(* Window Maximizer: the snap / restore state machine of SnapLayouter and  *)
(* the WindowStateRegistry it owns, with the host window system as the     *)
(* environment (windows open, close, move; the position-setter may throw;  *)
(* the document lookup and the sheet render are asynchronous and fallible).*)
(***************************************************************************)
EXTENDS Integers, Sequences, FiniteSets, TLC

\* ------------------------------------------------------------------ bounds
\* Cap of the performance counters (snapCount, restoreCount, overlayShowCount).
MaxCount == 2
\* Cap of the poll timers armed at the same time.
MaxTimers == 2
\* Cap of the restoreAll calls suspended at the same time.
MaxCalls == 2

\* --------------------------------------------------------- program constants
MIN_VIEWPORT_WIDTH == 800
MIN_VIEWPORT_HEIGHT == 600
\* The margin snapApp keeps between a clamped origin and the viewport edge.
CLAMP_MARGIN == 100

\* ------------------------------------------------------------ host windows
\* null / undefined of the source
None == "null"

\* Window objects of the host.  actorSheet and actorSheet2 are two objects of
\* the same ApplicationV2 sheet (same id, same document); settingsApp is an
\* AppV1 window with a numeric appId and no document; combatTracker is an
\* ApplicationV2 window of its own id, with no document.
ValidApps == {"actorSheet", "actorSheet2", "settingsApp", "combatTracker"}
\* Objects that fail snapApp's validation: one without a position, one whose
\* setPosition is not a function.
InvalidApps == {"noPosition", "noSetter"}
AllApps == ValidApps \cup InvalidApps

hasPosition(app) == app # "noPosition"
hasSetPosition(app) == app # "noSetter"

\* app.appId ?? app.id ?? app.constructor.name, then String(...)
getAppKey(app) ==
    CASE app = "settingsApp" -> ToString(7)
      [] app = "noPosition" -> ToString(8)
      [] app = "noSetter" -> ToString(9)
      [] app = "combatTracker" -> "combat"
      [] OTHER -> "ActorSheet-Actor-A"

NoDocumentInfo == [uuid |-> None, documentName |-> None]

\* app.document ?? app.object, reduced to {uuid, documentName} when both are set
extractDocumentInfo(app) ==
    IF app \in {"actorSheet", "actorSheet2"}
    THEN [uuid |-> "Actor.A", documentName |-> "Actor"]
    ELSE NoDocumentInfo

\* Geometry of a window as the host reports it.
Geometry(l, t, w, h) == [left |-> l, top |-> t, width |-> w, height |-> h]

InitialPosition(app) ==
    CASE app = "actorSheet" -> Geometry(100, 100, 400, 300)
      [] app = "actorSheet2" -> Geometry(120, 80, 400, 300)
      [] app = "settingsApp" -> Geometry(200, 150, 600, 400)
      [] app = "combatTracker" -> Geometry(900, 200, 300, 500)
      [] OTHER -> Geometry(0, 0, 300, 200)

\* Geometries the user may give a window by dragging and resizing it.
UserGeometries == {Geometry(50, 60, 400, 300)}

\* Viewport sizes the host may report.
Viewports == {<<799, 600>>, <<800, 599>>, <<800, 600>>}

ZoneFull == [layoutId |-> "full", zoneId |-> "full"]
ZoneRight == [layoutId |-> "split-2", zoneId |-> "right"]

VARIABLES
    innerWidth,     \* window.innerWidth
    innerHeight,    \* window.innerHeight
    uiWindows,      \* the window objects currently open in the host
    position,       \* app.position of every object that has one
    states,         \* WindowStateRegistry.states, in insertion order
    appStateMap,    \* SnapLayouter.appStateMap (a function on the objects it holds)
    header,         \* label of the injected header button of each open window
    metrics,        \* PerformanceTracker.metrics
    calls,          \* restoreAll calls suspended at an await
    preSnap,        \* history: a window's geometry before the first snapApp call
                    \* on it since restoreApp or restoreAll last restored it
    last            \* history: the operation that ran last and its outcome

\* The layout picker and overlay of SnapLayouter
VARIABLES
    layouts,        \* this.layouts: the layouts of the last buildLayoutOptions
    resizeTimeout,  \* the debounce timer of the resize listener is pending
    activeApp,      \* this.activeApp
    activeZone,     \* this.activeZone
    overlayActive,  \* the overlay element carries the class 'active'
    highlight,      \* style of the highlight element: display and rectangle
    showTimers      \* number of pending zone-resolution callbacks of show

controllerVars == <<layouts, resizeTimeout, activeApp, activeZone, overlayActive,
                    highlight, showTimers>>

\* The closure of setupAppV2DragTracking
VARIABLES
    draggingAppV2,       \* the window whose header received the pointer-down
    isDragging,          \* the movement threshold has been exceeded
    start,               \* startX, startY
    dragCheckInterval,   \* handle of the poll timer the tracker holds (0: null)
    currentPollInterval, \* interval of the poll timer in ms
    lastPollPosition,    \* window origin at the last completed poll
    pollTimers           \* the setInterval timers that are armed, by handle

trackerVars == <<draggingAppV2, isDragging, start, dragCheckInterval,
                 currentPollInterval, lastPollPosition, pollTimers>>

\* What the module has registered with the host
VARIABLES
    eventListeners,        \* the listeners and hooks of SnapLayouter are registered
                           \* (until cleanup, which also drops overlay and highlight)
    dragTrackingListeners  \* the pointer listeners of the tracker are registered

listenerVars == <<eventListeners, dragTrackingListeners>>

uiVars == <<controllerVars, trackerVars, listenerVars>>

\* The state of the host, the registry and the counters, without last
coreVars == <<innerWidth, innerHeight, uiWindows, position, states, appStateMap,
              header, metrics, calls, preSnap, listenerVars>>

vars == <<innerWidth, innerHeight, uiWindows, position, states, appStateMap,
          header, metrics, calls, preSnap, last, controllerVars, trackerVars,
          listenerVars>>

\* ---------------------------------------------------------------- JS numbers
\* The layout arithmetic divides the viewport size by a column or row count.
\* A JS number is an IEEE-754 double: a quotient that is not a dyadic rational
\* is rounded to 53 significant bits (round to nearest, ties to even), and so
\* is every product and sum.  A non-negative double is the record [m, e] of
\* value m * 2^e, with m a natural number held as a sequence of limbs (least
\* significant first) and, in canonical form, odd or zero.
BigBase == 4096
LimbBits == 12
MantissaBits == 53

Pow2(k) == IF k = 0 THEN 1 ELSE IF k = 1 THEN 2 ELSE IF k = 2 THEN 4
           ELSE IF k = 3 THEN 8 ELSE IF k = 4 THEN 16 ELSE IF k = 5 THEN 32
           ELSE IF k = 6 THEN 64 ELSE IF k = 7 THEN 128 ELSE IF k = 8 THEN 256
           ELSE IF k = 9 THEN 512 ELSE IF k = 10 THEN 1024 ELSE IF k = 11 THEN 2048
           ELSE 4096

RECURSIVE BitLen(_)
BitLen(n) == IF n = 0 THEN 0 ELSE 1 + BitLen(n \div 2)

RECURSIVE BigNorm(_)
BigNorm(a) ==
    IF a = <<>> THEN <<>>
    ELSE IF a[Len(a)] = 0 THEN BigNorm(SubSeq(a, 1, Len(a) - 1)) ELSE a

RECURSIVE BigFromInt(_)
BigFromInt(n) == IF n = 0 THEN <<>> ELSE <<n % BigBase>> \o BigFromInt(n \div BigBase)

RECURSIVE BigToInt(_)
BigToInt(a) == IF a = <<>> THEN 0 ELSE a[1] + BigBase * BigToInt(Tail(a))

Limb(a, i) == IF i <= Len(a) THEN a[i] ELSE 0

RECURSIVE BigAddFrom(_, _, _, _)
BigAddFrom(a, b, i, carry) ==
    IF i > Len(a) /\ i > Len(b)
    THEN IF carry = 0 THEN <<>> ELSE <<carry>>
    ELSE LET t == Limb(a, i) + Limb(b, i) + carry
         IN <<t % BigBase>> \o BigAddFrom(a, b, i + 1, t \div BigBase)

BigAdd(a, b) == BigAddFrom(a, b, 1, 0)

\* a - b for a >= b
RECURSIVE BigSubFrom(_, _, _, _)
BigSubFrom(a, b, i, borrow) ==
    IF i > Len(a) THEN <<>>
    ELSE LET t == Limb(a, i) - Limb(b, i) - borrow
         IN IF t < 0 THEN <<t + BigBase>> \o BigSubFrom(a, b, i + 1, 1)
            ELSE <<t>> \o BigSubFrom(a, b, i + 1, 0)

BigSub(a, b) == BigNorm(BigSubFrom(a, b, 1, 0))

\* a * k for a small natural k
RECURSIVE BigMulSmallFrom(_, _, _, _)
BigMulSmallFrom(a, k, i, carry) ==
    IF i > Len(a) THEN BigFromInt(carry)
    ELSE LET t == a[i] * k + carry
         IN <<t % BigBase>> \o BigMulSmallFrom(a, k, i + 1, t \div BigBase)

BigMulSmall(a, k) == BigNorm(BigMulSmallFrom(a, k, 1, 0))

ZeroLimbs(n) == [i \in 1..n |-> 0]

RECURSIVE BigMulFrom(_, _, _)
BigMulFrom(a, b, i) ==
    IF i > Len(b) THEN <<>>
    ELSE BigAdd(IF BigMulSmall(a, b[i]) = <<>> THEN <<>>
                ELSE ZeroLimbs(i - 1) \o BigMulSmall(a, b[i]),
                BigMulFrom(a, b, i + 1))

BigMul(a, b) == BigNorm(BigMulFrom(a, b, 1))

\* -1, 0, 1 as a is below, equal to, above b (both without leading zero limbs)
RECURSIVE BigCmpFrom(_, _, _)
BigCmpFrom(a, b, i) ==
    IF i = 0 THEN 0
    ELSE IF a[i] < b[i] THEN 0 - 1
    ELSE IF a[i] > b[i] THEN 1
    ELSE BigCmpFrom(a, b, i - 1)

BigCmp(a, b) ==
    IF Len(a) < Len(b) THEN 0 - 1
    ELSE IF Len(a) > Len(b) THEN 1
    ELSE BigCmpFrom(a, b, Len(a))

BigBits(a) == IF a = <<>> THEN 0 ELSE (Len(a) - 1) * LimbBits + BitLen(a[Len(a)])

\* quotient and remainder of a by a small natural d
RECURSIVE BigDivSmallFrom(_, _, _, _)
BigDivSmallFrom(a, d, i, r) ==
    IF i = 0 THEN [q |-> <<>>, r |-> r]
    ELSE LET t == r * BigBase + a[i]
             rest == BigDivSmallFrom(a, d, i - 1, t % d)
         IN [q |-> Append(rest.q, t \div d), r |-> rest.r]

BigDivSmall(a, d) ==
    LET qr == BigDivSmallFrom(a, d, Len(a), 0)
    IN [q |-> BigNorm(qr.q), r |-> qr.r]

BigShl(a, k) ==
    IF a = <<>> THEN <<>>
    ELSE ZeroLimbs(k \div LimbBits) \o BigMulSmall(a, Pow2(k % LimbBits))

BigShr(a, k) ==
    IF Len(a) <= k \div LimbBits THEN <<>>
    ELSE BigDivSmall(SubSeq(a, (k \div LimbBits) + 1, Len(a)), Pow2(k % LimbBits)).q

BigOdd(a) == a # <<>> /\ a[1] % 2 = 1

\* canonical form of m * 2^e
RECURSIVE Canon(_, _)
Canon(m, e) ==
    IF m = <<>> THEN [m |-> <<>>, e |-> 0]
    ELSE IF m[1] = 0 THEN Canon(Tail(m), e + LimbBits)
    ELSE IF m[1] % 2 = 0 THEN Canon(BigShr(m, 1), e + 1)
    ELSE [m |-> m, e |-> e]

\* m * 2^e rounded to 53 significant bits, to nearest, ties to even
Round53(m, e) ==
    IF BigBits(m) <= MantissaBits THEN Canon(m, e)
    ELSE LET sh == BigBits(m) - MantissaBits
             q == BigShr(m, sh)
             r == BigSub(m, BigShl(q, sh))
             c == BigCmp(r, BigShl(<<1>>, sh - 1))
             up == c > 0 \/ (c = 0 /\ BigOdd(q))
         IN Canon(IF up THEN BigAdd(q, <<1>>) ELSE q, e + sh)

\* a natural number below 2^31 as a double (exact)
DblFromInt(n) == Canon(BigFromInt(n), 0)

\* n / c for naturals n and c > 0: the quotient to 60 fractional bits with a
\* sticky bit for the remainder, then rounded
DblDivInt(n, c) ==
    LET qr == BigDivSmall(BigShl(BigFromInt(n), 60), c)
        m == BigAdd(BigMulSmall(qr.q, 2), IF qr.r = 0 THEN <<>> ELSE <<1>>)
    IN Round53(m, 0 - 61)

DblMul(a, b) == Round53(BigMul(a.m, b.m), a.e + b.e)

\* the mantissa of a at the smaller exponent of a and b
Aligned(a, b) == BigShl(a.m, a.e - (IF a.e < b.e THEN a.e ELSE b.e))

DblAdd(a, b) ==
    Round53(BigAdd(Aligned(a, b), Aligned(b, a)), IF a.e < b.e THEN a.e ELSE b.e)

DblCmp(a, b) == BigCmp(Aligned(a, b), Aligned(b, a))
DblLeq(a, b) == DblCmp(a, b) <= 0
DblLess(a, b) == DblCmp(a, b) < 0

\* the value of a double that holds a natural number below 2^31
DblToInt(a) == BigToInt(BigShl(a.m, a.e))

\* ------------------------------------------------------------------ layouts
MIN_ZONE_WIDTH == 300
MIN_ZONE_HEIGHT == 200

Zone(id, col, row) == [id |-> id, col |-> col, row |-> row]
Layout(id, cols, rows, zones) == [id |-> id, cols |-> cols, rows |-> rows, zones |-> zones]

\* Variant: a layout that fits replaces the layouts collected so far
PushReplacing(cond, L, l) == IF cond THEN <<l>> ELSE L

\* layouts.push(l) under the condition of the enclosing if
PushIf(cond, L, l) == IF cond THEN Append(L, l) ELSE L

\* Variant: the column layouts gated on the number of columns that fit alone
fitsColumnsByCount(n, screenWidth, maxCols) == maxCols >= n

\* The conditions under which calculateAvailableLayouts pushes the layout of
\* n columns, the layout of m rows and the grid of c columns by r rows
fitsColumns(n, screenWidth, maxCols) ==
    CASE n = 2 -> maxCols >= 2
      [] n = 3 -> screenWidth >= 1400 /\ maxCols >= 3
      [] n = 4 -> screenWidth >= 2560 /\ maxCols >= 4
      [] n = 6 -> screenWidth >= 3840 /\ maxCols >= 6

\* Variant: the row layouts gated on the number of rows that fit alone
fitsRowsByCount(m, screenHeight, maxRows) == maxRows >= m

fitsRows(m, screenHeight, maxRows) ==
    CASE m = 2 -> maxRows >= 2
      [] m = 3 -> screenHeight >= 1400 /\ maxRows >= 3

\* Variant: the grids gated on the numbers of columns and rows that fit alone
fitsGridByCount(c, r, screenWidth, screenHeight, maxCols, maxRows) ==
    maxCols >= c /\ maxRows >= r

fitsGrid(c, r, screenWidth, screenHeight, maxCols, maxRows) ==
    CASE c = 2 /\ r = 2 -> maxCols >= 2 /\ maxRows >= 2
      [] c = 4 /\ r = 2 -> screenWidth >= 3200 /\ maxCols >= 4 /\ maxRows >= 2
      [] c = 2 /\ r = 3 -> screenHeight >= 1400 /\ maxCols >= 2 /\ maxRows >= 3
      [] c = 3 /\ r = 3 -> /\ screenWidth >= 1400 /\ screenHeight >= 1400
                           /\ maxCols >= 3 /\ maxRows >= 3

calculateAvailableLayouts(screenWidth, screenHeight) ==
    LET maxCols == screenWidth \div MIN_ZONE_WIDTH
        maxRows == screenHeight \div MIN_ZONE_HEIGHT
        L0 == <<Layout("full", 1, 1, <<Zone("full", 0, 0)>>)>>
        L1 == PushIf(fitsColumns(2, screenWidth, maxCols), L0,
                Layout("split-2", 2, 1, <<Zone("left", 0, 0), Zone("right", 1, 0)>>))
        L2 == PushIf(fitsColumns(3, screenWidth, maxCols), L1,
                Layout("split-3", 3, 1,
                       <<Zone("left", 0, 0), Zone("center", 1, 0), Zone("right", 2, 0)>>))
        L3 == PushIf(fitsColumns(4, screenWidth, maxCols), L2,
                Layout("split-4", 4, 1,
                       <<Zone("col-0", 0, 0), Zone("col-1", 1, 0), Zone("col-2", 2, 0),
                         Zone("col-3", 3, 0)>>))
        L4 == PushIf(fitsColumns(6, screenWidth, maxCols), L3,
                Layout("split-6", 6, 1,
                       <<Zone("col-0", 0, 0), Zone("col-1", 1, 0), Zone("col-2", 2, 0),
                         Zone("col-3", 3, 0), Zone("col-4", 4, 0), Zone("col-5", 5, 0)>>))
        L5 == PushIf(fitsRows(2, screenHeight, maxRows), L4,
                Layout("rows-2", 1, 2, <<Zone("top", 0, 0), Zone("bottom", 0, 1)>>))
        L6 == PushIf(fitsGrid(2, 2, screenWidth, screenHeight, maxCols, maxRows), L5,
                Layout("grid-2x2", 2, 2,
                       <<Zone("tl", 0, 0), Zone("tr", 1, 0), Zone("bl", 0, 1),
                         Zone("br", 1, 1)>>))
        L7 == PushIf(fitsGrid(4, 2, screenWidth, screenHeight, maxCols, maxRows), L6,
                Layout("grid-4x2", 4, 2,
                       <<Zone("r0c0", 0, 0), Zone("r0c1", 1, 0), Zone("r0c2", 2, 0),
                         Zone("r0c3", 3, 0), Zone("r1c0", 0, 1), Zone("r1c1", 1, 1),
                         Zone("r1c2", 2, 1), Zone("r1c3", 3, 1)>>))
        L8 == PushIf(fitsRows(3, screenHeight, maxRows), L7,
                Layout("rows-3", 1, 3,
                       <<Zone("top", 0, 0), Zone("middle", 0, 1), Zone("bottom", 0, 2)>>))
        L9 == PushIf(fitsGrid(2, 3, screenWidth, screenHeight, maxCols, maxRows), L8,
                Layout("grid-2x3", 2, 3,
                       <<Zone("r0c0", 0, 0), Zone("r0c1", 1, 0), Zone("r1c0", 0, 1),
                         Zone("r1c1", 1, 1), Zone("r2c0", 0, 2), Zone("r2c1", 1, 2)>>))
    IN  PushIf(fitsGrid(3, 3, screenWidth, screenHeight, maxCols, maxRows), L9,
            Layout("grid-3x3", 3, 3,
                   <<Zone("r0c0", 0, 0), Zone("r0c1", 1, 0), Zone("r0c2", 2, 0),
                     Zone("r1c0", 0, 1), Zone("r1c1", 1, 1), Zone("r1c2", 2, 1),
                     Zone("r2c0", 0, 2), Zone("r2c1", 1, 2), Zone("r2c2", 2, 2)>>))

\* Array.prototype.find on the id: the index of the first match, 0 for undefined
FindId(seq, id) ==
    IF \E i \in 1..Len(seq) : seq[i].id = id
    THEN CHOOSE i \in 1..Len(seq) :
            seq[i].id = id /\ \A j \in 1..(i - 1) : seq[j].id # id
    ELSE 0

\* this.activeZone = null, and the null of findZoneAtPosition
NoZone == [layoutId |-> None, zoneId |-> None]

\* A rectangle of JS numbers, and the null calculateZoneRect returns
Rect(x, y, w, h) == [isNull |-> FALSE, x |-> x, y |-> y, w |-> w, h |-> h]
NoRect ==
    [isNull |-> TRUE, x |-> DblFromInt(0), y |-> DblFromInt(0), w |-> DblFromInt(0),
     h |-> DblFromInt(0)]

\* zone.colSpan || 1, zone.rowSpan || 1
colSpanOf(zone) ==
    IF "colSpan" \in DOMAIN zone /\ zone.colSpan # 0 THEN zone.colSpan ELSE 1
rowSpanOf(zone) ==
    IF "rowSpan" \in DOMAIN zone /\ zone.rowSpan # 0 THEN zone.rowSpan ELSE 1

\* Variant: the column width taken from the rows and the row height from the
\* columns of the layout
zoneRectOfTransposed(layout, zone, screenWidth, screenHeight) ==
    LET colWidth == DblDivInt(screenWidth, layout.rows)
        rowHeight == DblDivInt(screenHeight, layout.cols)
    IN  Rect(DblMul(DblFromInt(zone.col), colWidth),
             DblMul(DblFromInt(zone.row), rowHeight),
             DblMul(colWidth, DblFromInt(colSpanOf(zone))),
             DblMul(rowHeight, DblFromInt(rowSpanOf(zone))))

\* The branch of calculateZoneRect for a layout and a zone that were found
zoneRectOf(layout, zone, screenWidth, screenHeight) ==
    LET colWidth == DblDivInt(screenWidth, layout.cols)
        rowHeight == DblDivInt(screenHeight, layout.rows)
    IN  Rect(DblMul(DblFromInt(zone.col), colWidth),
             DblMul(DblFromInt(zone.row), rowHeight),
             DblMul(colWidth, DblFromInt(colSpanOf(zone))),
             DblMul(rowHeight, DblFromInt(rowSpanOf(zone))))

\* The branch of calculateZoneRect for a layout id that was not found
layoutNotFound(layoutId, screenWidth, screenHeight) ==
    IF layoutId = "full"
    THEN Rect(DblFromInt(0), DblFromInt(0), DblFromInt(screenWidth), DblFromInt(screenHeight))
    ELSE NoRect

\* Variant: a zone id that was not found answered by an empty rectangle
zoneNotFoundEmptyRect(layout, zoneId) ==
    Rect(DblFromInt(0), DblFromInt(0), DblFromInt(0), DblFromInt(0))

\* The branch of calculateZoneRect for a zone id that was not found
zoneNotFound(layout, zoneId) == NoRect

\* calculateZoneRect on this.layouts = L and a viewport of screenWidth x screenHeight
calculateZoneRect(L, layoutId, zoneId, screenWidth, screenHeight) ==
    LET li == FindId(L, layoutId) IN
    IF li = 0 THEN layoutNotFound(layoutId, screenWidth, screenHeight)
    ELSE LET layout == L[li]
             zi == FindId(layout.zones, zoneId)
         IN  IF zi = 0 THEN zoneNotFound(layout, zoneId)
             ELSE zoneRectOf(layout, layout.zones[zi], screenWidth, screenHeight)

\* ------------------------------------------------------ WindowStateRegistry
HasKey(S, key) == \E i \in 1..Len(S) : S[i].appKey = key
IndexOf(S, key) == CHOOSE i \in 1..Len(S) : S[i].appKey = key

\* getState(app) is truthy
hasState(S, app) == HasKey(S, getAppKey(app))
getState(S, app) == S[IndexOf(S, getAppKey(app))]

\* Map.set: replaces the value of an existing key in place, appends a new key.
\* appClass and snappedAt are left out: no operation reads them.
registerSnap(S, app, originalPosition, zoneInfo) ==
    LET key == getAppKey(app)
        state == [appKey |-> key,
                  originalPosition |-> originalPosition,
                  zoneInfo |-> zoneInfo,
                  documentInfo |-> extractDocumentInfo(app),
                  isOpen |-> TRUE]
    IN IF HasKey(S, key)
       THEN [S EXCEPT ![IndexOf(S, key)] = state]
       ELSE Append(S, state)

\* Variant: the close notification drops the record of the window
markClosedRemoving(S, app) == SelectSeq(S, LAMBDA s : s.appKey # getAppKey(app))

markClosed(S, app) ==
    [i \in 1..Len(S) |->
        IF S[i].appKey = getAppKey(app) THEN [S[i] EXCEPT !.isOpen = FALSE] ELSE S[i]]

\* Variant: markOpen that registers a blank record for an identity without one
markOpenCreating(S, app) ==
    IF HasKey(S, getAppKey(app))
    THEN [i \in 1..Len(S) |->
            IF S[i].appKey = getAppKey(app) THEN [S[i] EXCEPT !.isOpen = TRUE] ELSE S[i]]
    ELSE Append(S, [appKey |-> getAppKey(app), originalPosition |-> Geometry(0, 0, 0, 0),
                    zoneInfo |-> NoZone, documentInfo |-> NoDocumentInfo, isOpen |-> TRUE])
markOpen(S, app) ==
    [i \in 1..Len(S) |->
        IF S[i].appKey = getAppKey(app) THEN [S[i] EXCEPT !.isOpen = TRUE] ELSE S[i]]

\* Variant: removeState that leaves the record in place
removeStateKept(S, app) == S
removeState(S, app) == SelectSeq(S, LAMBDA s : s.appKey # getAppKey(app))

\* Variant: getAllStatesArray that hands out the open records only
getAllStatesArrayOpenOnly(S) == SelectSeq(S, LAMBDA s : s.isOpen)
getAllStatesArray(S) == S

getSnappedCount(S) == Len(S)

hasSnappedWindows(S) == Len(S) > 0

\* Variant: clearAll that drops the open records only
clearAllKeepClosed(S) == SelectSeq(S, LAMBDA s : ~s.isOpen)
clearAll(S) == SelectSeq(S, LAMBDA s : FALSE)


\* -------------------------------------------------------------- SnapLayouter
\* Variant: the viewport check with the minimum size itself excluded
ViewportTooSmallInclusive(w, h) == w <= MIN_VIEWPORT_WIDTH \/ h <= MIN_VIEWPORT_HEIGHT
\* Screen too small for snap layout
ViewportTooSmall(w, h) == w < MIN_VIEWPORT_WIDTH \/ h < MIN_VIEWPORT_HEIGHT

\* !app || !app.position || typeof app.setPosition !== 'function'
InvalidApp(app) == ~hasPosition(app) \/ ~hasSetPosition(app)

Min(a, b) == IF a < b THEN a ELSE b
Max(a, b) == IF a > b THEN a ELSE b

\* Variant: the clamp without the lower bound 0 of the origin
ClampRectNoFloor(rect, w, h) ==
    LET x == Min(rect.x, w - CLAMP_MARGIN)
        y == Min(rect.y, h - CLAMP_MARGIN)
    IN [x |-> x, y |-> y, w |-> Min(rect.w, w - x), h |-> Min(rect.h, h - y)]
\* Clamp rect to viewport bounds to prevent off-screen positioning
ClampRect(rect, w, h) ==
    LET x == Max(0, Min(rect.x, w - CLAMP_MARGIN))
        y == Max(0, Min(rect.y, h - CLAMP_MARGIN))
    IN [x |-> x, y |-> y, w |-> Min(rect.w, w - x), h |-> Min(rect.h, h - y)]

\* The rectangles callers pass to snapApp: the whole viewport (what
\* calculateZoneRect('full','full') returns) and a rectangle that lies partly
\* outside every viewport.
FullRect(w, h) == [x |-> 0, y |-> 0, w |-> w, h |-> h]

RectInputs(w, h) ==
    { <<FullRect(w, h), ZoneFull>>,
      <<[x |-> 0 - 40, y |-> 900, w |-> 2000, h |-> 50], ZoneRight>> }

\* Map / WeakMap primitives on a function whose domain is the set of keys
EmptyMap == [x \in {} |-> None]
MapHas(m, k) == k \in DOMAIN m
MapSet(m, k, v) == [x \in DOMAIN m \cup {k} |-> IF x = k THEN v ELSE m[x]]
MapDelete(m, k) == [x \in DOMAIN m \ {k} |-> m[x]]

\* The label updateHeaderButton writes: derived from appStateMap.has(app)
ButtonLabel(asm, app) == IF MapHas(asm, app) THEN "Restore" ELSE "Maximize"

\* updateHeaderButton: no element (window not rendered) means no update
updateHeaderButton(H, asm, app) ==
    IF MapHas(H, app) THEN MapSet(H, app, ButtonLabel(asm, app)) ELSE H

\* Order in which findOpenApplication scans: ui.windows (AppV1), then
\* foundry.applications.instances (AppV2)
ScanOrder == <<"settingsApp", "actorSheet", "actorSheet2", "combatTracker">>

findOpenApplication(W, appKey) ==
    LET hits == {i \in 1..Len(ScanOrder) :
                    ScanOrder[i] \in W /\ getAppKey(ScanOrder[i]) = appKey}
    IN IF hits = {} THEN None
       ELSE ScanOrder[CHOOSE i \in hits : \A j \in hits : i <= j]

\* The zero summary and the blank operation record
NoSummary == [restoredOpen |-> 0, reopened |-> 0, skipped |-> 0, total |-> 0]

NoLast == [op |-> "init", app |-> None, declined |-> FALSE, threw |-> FALSE,
           propagated |-> FALSE, note |-> None, hadState |-> FALSE,
           summary |-> NoSummary, n0 |-> 0, log |-> <<>>]

\* What last holds after an event of the host
HostLast == [NoLast EXCEPT !.op = "host"]

\* Array.from(states.values()) hands out the record objects themselves: an
\* entry stays the registry's object (live) until the registry drops it.
Snapshot(S) == [i \in 1..Len(S) |-> [state |-> S[i], live |-> TRUE]]

\* markClosed seen through the references a suspended restoreAll holds
CallsMarkClosed(C, app) ==
    [c \in 1..Len(C) |->
        [C[c] EXCEPT !.rest =
            [i \in 1..Len(@) |->
                IF @[i].live /\ @[i].state.appKey = getAppKey(app)
                THEN [@[i] EXCEPT !.state.isOpen = FALSE] ELSE @[i]]]]

\* removeState / clearAll drop the registry's reference; the array keeps its own
CallsDetach(C, keys) ==
    [c \in 1..Len(C) |->
        [C[c] EXCEPT !.rest =
            [i \in 1..Len(@) |->
                IF @[i].state.appKey \in keys
                THEN [@[i] EXCEPT !.live = FALSE] ELSE @[i]]]]

KeysOf(S) == {S[i].appKey : i \in 1..Len(S)}

\* The state after construction, with the windows W open in a viewport of V
InitWith(W, V) ==
    /\ \E v \in V : innerWidth = v[1] /\ innerHeight = v[2]
    /\ uiWindows = W
    /\ position = [a \in {x \in AllApps : hasPosition(x)} |-> InitialPosition(a)]
    /\ states = <<>>
    /\ appStateMap = EmptyMap
    /\ header = [a \in W |-> "Maximize"]
    /\ metrics = [snapCount |-> 0, restoreCount |-> 0, overlayShowCount |-> 0]
    /\ calls = <<>>
    /\ preSnap = EmptyMap
    /\ last = NoLast
    /\ layouts = calculateAvailableLayouts(innerWidth, innerHeight)
    /\ resizeTimeout = FALSE
    /\ activeApp = None
    /\ activeZone = NoZone
    /\ overlayActive = FALSE
    /\ highlight = [display |-> "", rect |-> NoRect]
    /\ showTimers = 0
    /\ draggingAppV2 = None
    /\ isDragging = FALSE
    /\ start = [x |-> 0, y |-> 0]
    /\ dragCheckInterval = 0
    /\ currentPollInterval = 100
    /\ lastPollPosition = [x |-> 0, y |-> 0]
    /\ pollTimers = {}
    /\ eventListeners = TRUE
    /\ dragTrackingListeners = TRUE

\* ---- the host: resize, user drag, window close and open
resize(v) ==
    /\ <<innerWidth, innerHeight>> # v
    /\ innerWidth' = v[1]
    /\ innerHeight' = v[2]
    /\ last' = HostLast
    /\ UNCHANGED <<uiWindows, position, states, appStateMap, header, metrics,
                   calls, preSnap>>

moveWindow(app, g) ==
    /\ app \in uiWindows
    /\ position[app] # g
    /\ position' = [position EXCEPT ![app] = g]
    /\ last' = HostLast
    /\ UNCHANGED <<innerWidth, innerHeight, uiWindows, states, appStateMap,
                   header, metrics, calls, preSnap>>

\* The host closes a window; the closeApplication / closeApplicationV2 hook of
\* setupCloseTracking runs while it is registered
closeWindow(app) ==
    /\ app \in uiWindows
    /\ uiWindows' = uiWindows \ {app}
    /\ header' = MapDelete(header, app)
    /\ states' = IF eventListeners /\ hasState(states, app)
                 THEN markClosed(states, app) ELSE states
    /\ calls' = IF eventListeners /\ hasState(states, app)
                THEN CallsMarkClosed(calls, app) ELSE calls
    /\ last' = HostLast
    /\ UNCHANGED <<innerWidth, innerHeight, position, appStateMap, metrics, preSnap>>

\* The host renders a window; the render hook injects the header button with
\* the label derived from appStateMap.has(app).  No two open windows share an
\* identity.
openWindow(app) ==
    /\ app \in ValidApps \ uiWindows
    /\ \A b \in uiWindows : getAppKey(b) # getAppKey(app)
    /\ uiWindows' = uiWindows \cup {app}
    /\ header' = MapSet(header, app, ButtonLabel(appStateMap, app))
    /\ last' = HostLast
    /\ UNCHANGED <<innerWidth, innerHeight, position, states, appStateMap,
                   metrics, calls, preSnap>>

\* PerformanceTracker.recordSnap / recordRestore
recordSnap(m) == [m EXCEPT !.snapCount = @ + 1]
recordRestore(m) == [m EXCEPT !.restoreCount = @ + 1]

\* Variant: snapApp registering on every call
SnapRegistryUnguarded(S, app, originalPosition, zoneInfo) ==
    registerSnap(S, app, originalPosition, zoneInfo)
\* snapApp registers in the global registry only a window that has no record
SnapRegistry(S, app, originalPosition, zoneInfo) ==
    IF ~hasState(S, app) THEN registerSnap(S, app, originalPosition, zoneInfo) ELSE S

\* snapApp stores its per-window state only when the WeakMap has none
SnapAppState(asm, app, originalPosition, zoneInfo) ==
    IF ~MapHas(asm, app)
    THEN MapSet(asm, app, [originalPosition |-> originalPosition, zoneInfo |-> zoneInfo])
    ELSE asm

\* Variant: recordSnap called ahead of the try block
metricsAfterSnapAlways(m, throws) == recordSnap(m)
\* The catch block of snapApp returns before recordSnap is reached
metricsAfterSnap(m, throws) == IF throws THEN m ELSE recordSnap(m)

\* The host changes the viewport; the listener of 'resize', while registered,
\* (re)arms the debounce timer; this.layouts stays as it is until it fires.
onResize(v) ==
    /\ resize(v)
    /\ resizeTimeout' = IF eventListeners THEN TRUE ELSE resizeTimeout
    /\ UNCHANGED <<layouts, activeApp, activeZone, overlayActive, highlight, showTimers>>
    /\ UNCHANGED <<trackerVars, listenerVars>>

\* ---- the overlay: buildLayoutOptions, activateZone, deactivateZone, show, hide
\* Each method is written over the fields of the layouter it assigns; the
\* handler that calls it frames the rest.
buildLayoutOptions ==
    layouts' = calculateAvailableLayouts(innerWidth, innerHeight)

\* activateZone once calculateZoneRect has returned rect
showZoneRect(layoutId, zoneId, rect) ==
    /\ activeZone' = [layoutId |-> layoutId, zoneId |-> zoneId]
    /\ highlight' = IF rect.isNull THEN highlight
                    ELSE [display |-> "block", rect |-> rect]

activateZone(layoutId, zoneId) ==
    showZoneRect(layoutId, zoneId,
                 calculateZoneRect(layouts, layoutId, zoneId, innerWidth, innerHeight))

deactivateZone ==
    /\ activeZone' = NoZone
    /\ highlight' = [highlight EXCEPT !.display = "none"]

recordOverlayShow(m) == [m EXCEPT !.overlayShowCount = @ + 1]

\* After cleanup this.overlay is null: show assigns activeApp and throws a
\* TypeError at this.overlay.classList, hide throws at its first statement
show(app) ==
    IF eventListeners
    THEN /\ metrics.overlayShowCount < MaxCount
         /\ activeApp' = app
         /\ overlayActive' = TRUE
         /\ metrics' = recordOverlayShow(metrics)
         /\ showTimers' = showTimers + 1
    ELSE /\ activeApp' = app
         /\ UNCHANGED <<overlayActive, metrics, showTimers>>

\* Variant: hide that leaves activeApp set
hideKeepingApp ==
    /\ overlayActive' = FALSE
    /\ deactivateZone
    /\ UNCHANGED activeApp

hide ==
    IF eventListeners
    THEN /\ overlayActive' = FALSE
         /\ deactivateZone
         /\ activeApp' = None
    ELSE UNCHANGED <<overlayActive, activeZone, highlight, activeApp>>

\* The debounce timer of the resize listener fires: rebuildOverlay
rebuildOverlay ==
    /\ resizeTimeout
    /\ resizeTimeout' = FALSE
    /\ buildLayoutOptions
    /\ last' = [NoLast EXCEPT !.op = "rebuildOverlay"]
    /\ UNCHANGED <<activeApp, activeZone, overlayActive, highlight, showTimers>>
    /\ UNCHANGED <<coreVars, trackerVars>>

\* 'mouseenter' / 'pointerenter' on a zone of the bar, and any other caller
\* of activateZone with a pair of ids
callActivateZone(layoutId, zoneId) ==
    LET rect == calculateZoneRect(layouts, layoutId, zoneId, innerWidth, innerHeight) IN
    /\ eventListeners
    /\ showZoneRect(layoutId, zoneId, rect)
    /\ last' = [NoLast EXCEPT !.op = "activateZone",
                              !.note = IF rect.isNull THEN "noRect" ELSE None]
    /\ UNCHANGED <<layouts, resizeTimeout, activeApp, overlayActive, showTimers>>
    /\ UNCHANGED <<coreVars, trackerVars>>

\* 'mouseleave' / 'pointerleave' on the bar
callDeactivateZone ==
    /\ eventListeners
    /\ deactivateZone
    /\ last' = [NoLast EXCEPT !.op = "deactivateZone"]
    /\ UNCHANGED <<layouts, resizeTimeout, activeApp, overlayActive, showTimers>>
    /\ UNCHANGED <<coreVars, trackerVars>>

\* ---- snapApp(app, rect, zoneInfo); throws: whether app.setPosition throws
snapApp(app, rect, zoneInfo, throws) ==
    IF InvalidApp(app) \/ ViewportTooSmall(innerWidth, innerHeight)
    THEN /\ last' = [NoLast EXCEPT !.op = "snapApp", !.app = app, !.declined = TRUE]
         /\ UNCHANGED <<innerWidth, innerHeight, uiWindows, position, states,
                        appStateMap, header, metrics, calls, preSnap>>
    ELSE LET originalPosition == position[app]
             r == ClampRect(rect, innerWidth, innerHeight)
             asm == SnapAppState(appStateMap, app, originalPosition, zoneInfo)
         IN /\ throws \/ metrics.snapCount < MaxCount
            /\ appStateMap' = asm
            /\ states' = SnapRegistry(states, app, originalPosition, zoneInfo)
            /\ position' = IF throws THEN position
                           ELSE [position EXCEPT ![app] = Geometry(r.x, r.y, r.w, r.h)]
            /\ metrics' = metricsAfterSnap(metrics, throws)
            /\ header' = IF throws THEN header
                         ELSE updateHeaderButton(header, asm, app)
            /\ preSnap' = IF MapHas(preSnap, app) THEN preSnap
                          ELSE MapSet(preSnap, app, originalPosition)
            /\ last' = [NoLast EXCEPT !.op = "snapApp", !.app = app,
                                      !.threw = throws,
                                      !.note = IF throws THEN "error" ELSE None,
                                      !.hadState = hasState(states, app)]
            /\ UNCHANGED <<innerWidth, innerHeight, uiWindows, calls>>

\* ---- restoreApp(app); throws: whether app.setPosition throws
restoreApp(app, throws) ==
    IF InvalidApp(app)
    THEN /\ last' = [NoLast EXCEPT !.op = "restoreApp", !.app = app, !.declined = TRUE]
         /\ UNCHANGED <<innerWidth, innerHeight, uiWindows, position, states,
                        appStateMap, header, metrics, calls, preSnap>>
    ELSE LET has == MapHas(appStateMap, app)
             asm == MapDelete(appStateMap, app)
         IN /\ metrics.restoreCount < MaxCount
            /\ metrics' = recordRestore(metrics)
            /\ position' = IF has /\ ~throws
                           THEN [position EXCEPT ![app] = appStateMap[app].originalPosition]
                           ELSE position
            /\ appStateMap' = asm
            /\ header' = IF has THEN updateHeaderButton(header, asm, app) ELSE header
            /\ states' = removeState(states, app)
            /\ calls' = CallsDetach(calls, {getAppKey(app)})
            /\ preSnap' = MapDelete(preSnap, app)
            /\ last' = [NoLast EXCEPT !.op = "restoreApp", !.app = app,
                                      !.threw = has /\ throws,
                                      !.note = IF has /\ throws THEN "error" ELSE None,
                                      !.hadState = hasState(states, app)]
            /\ UNCHANGED <<innerWidth, innerHeight, uiWindows>>


\* ---- restoreAll
\* What one pass of the loop body did to one record (history, for the summary).
LogEntry(state, found, failure, counted, applied) ==
    [appKey |-> state.appKey, found |-> found, failure |-> failure,
     counted |-> counted, applied |-> applied]

\* The host window(s) a document's sheet may be: doc.sheet of reopenDocument
SheetsOf(uuid) == {a \in ValidApps : extractDocumentInfo(a).uuid = uuid}

\* The synchronous run of the for-loop up to the next await (a closed record
\* with document info) or to the end of the array.  w.rest holds the records
\* of the array not yet counted, the first being the one the loop is at;
\* thrower is the set of windows whose setPosition throws during this run.
RECURSIVE RunLoop(_, _)
RunLoop(w, thrower) ==
    IF w.rest = <<>> THEN w
    ELSE LET state == Head(w.rest).state
             app == findOpenApplication(w.uiWindows, state.appKey)
         IN IF app # None /\ state.isOpen
            THEN IF ~hasSetPosition(app)
                 THEN RunLoop([w EXCEPT !.skipped = @ + 1, !.rest = Tail(@),
                                  !.log = Append(@, LogEntry(state, TRUE, "invalid", "skipped", FALSE))],
                              thrower)
                 ELSE IF app \in thrower
                 THEN RunLoop([w EXCEPT !.skipped = @ + 1, !.rest = Tail(@),
                                  !.note = "warn",
                                  !.log = Append(@, LogEntry(state, TRUE, "setPosition", "skipped", FALSE))],
                              thrower)
                 ELSE RunLoop([w EXCEPT
                                  !.position = [@ EXCEPT ![app] = state.originalPosition],
                                  !.appStateMap = MapDelete(@, app),
                                  !.preSnap = MapDelete(@, app),
                                  !.header = updateHeaderButton(@, MapDelete(w.appStateMap, app), app),
                                  !.restoredOpen = @ + 1, !.rest = Tail(@),
                                  !.log = Append(@, LogEntry(state, TRUE, "none", "restoredOpen", TRUE))],
                              thrower)
            ELSE IF ~state.isOpen /\ state.documentInfo # NoDocumentInfo
            THEN w
            ELSE RunLoop([w EXCEPT !.skipped = @ + 1, !.rest = Tail(@),
                             !.log = Append(@, LogEntry(state, app # None, "none", "skipped", FALSE))],
                         thrower)

\* {restoredOpen, reopened, skipped, total: states.length}
Summary(w) == [restoredOpen |-> w.restoredOpen, reopened |-> w.reopened,
               skipped |-> w.skipped, total |-> w.length]

\* The part of a call that survives an await
CallOf(w, pc) == [rest |-> w.rest, length |-> w.length, pc |-> pc,
                  restoredOpen |-> w.restoredOpen, reopened |-> w.reopened,
                  skipped |-> w.skipped, n0 |-> w.n0]

\* The running call: the suspended part plus the program state it works on
Working(c, W, pos, asm, H, pre) ==
    [rest |-> c.rest, length |-> c.length, preSnap |-> pre,
     restoredOpen |-> c.restoredOpen, reopened |-> c.reopened,
     skipped |-> c.skipped, n0 |-> c.n0, log |-> <<>>,
     uiWindows |-> W, position |-> pos, appStateMap |-> asm, header |-> H,
     note |-> None]

RemoveAt(C, c) == [i \in 1..(Len(C) - 1) |-> IF i < c THEN C[i] ELSE C[i + 1]]

\* After a synchronous run w of call number c (0: a call that just started):
\* either the loop reached an await and the call is suspended, or it ended,
\* the registry is cleared and the summary returned.
Settle(w, c) ==
    /\ position' = w.position
    /\ appStateMap' = w.appStateMap
    /\ header' = w.header
    /\ uiWindows' = w.uiWindows
    /\ preSnap' = w.preSnap
    /\ IF w.rest = <<>>
       THEN /\ states' = clearAll(states)
            /\ calls' = CallsDetach(IF c = 0 THEN calls ELSE RemoveAt(calls, c),
                                    KeysOf(states))
            /\ last' = [NoLast EXCEPT !.op = "restoreAll", !.note = w.note,
                                      !.summary = Summary(w), !.n0 = w.n0,
                                      !.log = w.log]
       ELSE /\ states' = states
            /\ calls' = IF c = 0 THEN Append(calls, CallOf(w, "fromUuid"))
                        ELSE [calls EXCEPT ![c] = CallOf(w, "fromUuid")]
            /\ last' = [NoLast EXCEPT !.op = "restoreAllAwait", !.note = w.note,
                                      !.log = w.log]
    /\ UNCHANGED <<innerWidth, innerHeight, metrics>>

\* restoreAll() is called: runs to its first await or to its end
restoreAll(thrower) ==
    LET array == Snapshot(getAllStatesArray(states))
        c0 == [rest |-> array, length |-> Len(array),
               restoredOpen |-> 0, reopened |-> 0, skipped |-> 0,
               n0 |-> getSnappedCount(states)]
        w == RunLoop(Working(c0, uiWindows, position, appStateMap, header, preSnap),
                     thrower)
    IN Settle(w, 0)

\* await fromUuid(uuid) of reopenDocument settles: with the document, with
\* null (deleted), or by throwing
fromUuidReturn(c, outcome, thrower) ==
    /\ c \in 1..Len(calls)
    /\ calls[c].pc = "fromUuid"
    /\ IF outcome = "doc"
       THEN /\ calls' = [calls EXCEPT ![c].pc = "render"]
            /\ last' = [NoLast EXCEPT !.op = "fromUuid"]
            /\ UNCHANGED <<innerWidth, innerHeight, uiWindows, position, states,
                           appStateMap, header, metrics, preSnap>>
       ELSE LET call == calls[c]
                state == Head(call.rest).state
                w0 == Working(call, uiWindows, position, appStateMap, header, preSnap)
                w1 == [w0 EXCEPT !.skipped = @ + 1, !.rest = Tail(@),
                          !.log = Append(@, LogEntry(state,
                                      findOpenApplication(uiWindows, state.appKey) # None,
                                      "lookup", "skipped", FALSE))]
            IN Settle(RunLoop(w1, thrower), c)

\* await doc.sheet.render(true, originalPosition) settles: the host has opened
\* (or re-rendered) the sheet at that geometry, or the render threw
renderReturn(c, outcome, sheet, thrower) ==
    /\ c \in 1..Len(calls)
    /\ calls[c].pc = "render"
    /\ LET call == calls[c]
           state == Head(call.rest).state
           open == findOpenApplication(uiWindows, state.appKey)
           W == IF outcome = "ok" THEN uiWindows \cup {sheet} ELSE uiWindows
           pos == IF outcome = "ok"
                  THEN [position EXCEPT ![sheet] = state.originalPosition]
                  ELSE position
           H == IF outcome = "ok"
                THEN MapSet(header, sheet, ButtonLabel(appStateMap, sheet))
                ELSE header
           pre == IF outcome = "ok" THEN MapDelete(preSnap, sheet) ELSE preSnap
           w0 == Working(call, W, pos, appStateMap, H, pre)
           w1 == IF outcome = "ok"
                 THEN [w0 EXCEPT !.reopened = @ + 1, !.rest = Tail(@),
                          !.log = Append(@, LogEntry(state, open # None, "none", "reopened", TRUE))]
                 ELSE [w0 EXCEPT !.skipped = @ + 1, !.rest = Tail(@),
                          !.log = Append(@, LogEntry(state, open # None, "render", "skipped", FALSE))]
       IN /\ sheet \in SheetsOf(state.documentInfo.uuid)
          /\ open # None => sheet = open
          /\ Settle(RunLoop(w1, thrower), c)

\* ---- setupAppV2DragTracking: pointerdown, pointermove, adaptivePoll,
\* pointerup, pointercancel, with the timers of show and of the poll
DRAG_THRESHOLD == 3
MIN_INTERVAL == 50
MAX_INTERVAL == 500
ADJUSTMENT_THRESHOLD == 25
\* Y below which a pointer or a window top opens the overlay, and the height of
\* the band under it in which the overlay stays open
TOP_EDGE == 10
OVERLAY_HEIGHT == 250

Abs(n) == IF n < 0 THEN 0 - n ELSE n

\* foundry.applications.instances holds the ApplicationV2 windows that are open
isAppV2(app) == app \in {"actorSheet", "actorSheet2", "combatTracker"}

\* setInterval: the handle of the new timer, and the timers with it armed
NewTimerId(T) ==
    CHOOSE i \in 1..(Cardinality(T) + 1) :
        /\ \A t \in T : t.id # i
        /\ \A j \in 1..(i - 1) : \E t \in T : t.id = j

\* clearDragTrackedTimer(id) for a handle that is set
ClearTimer(T, id) == IF id = 0 THEN T ELSE {t \in T : t.id # id}

\* An integral rectangle of JS numbers as the integers snapApp clamps
RectToInt(rect) ==
    [x |-> DblToInt(rect.x), y |-> DblToInt(rect.y),
     w |-> DblToInt(rect.w), h |-> DblToInt(rect.h)]

\* What last holds after an event of the tracker
TrackerLast(op, app, note, ignored) ==
    [NoLast EXCEPT !.op = op, !.app = app, !.note = note, !.declined = ignored]

\* Variant: no target counts as a control
isButtonNever(target) == FALSE

\* event.target.closest('button, a, [data-action], .header-control,
\* .header-button, .control, .close')
isButton(target) == target = "control"

\* 'pointerdown' with event.button on a target inside the window app: on a
\* control of its header, on the header itself, or outside the header
pointerdown(button, target, app, x, y) ==
    LET inHeader == target \in {"control", "header"}
        foundApp == IF app \in uiWindows /\ isAppV2(app) THEN app ELSE None
        tracked == button = 0 /\ ~isButton(target) /\ inHeader /\ foundApp # None
    IN /\ dragTrackingListeners
       /\ IF tracked
          THEN /\ draggingAppV2' = foundApp
               /\ isDragging' = FALSE
               /\ start' = [x |-> x, y |-> y]
               /\ lastPollPosition' = [x |-> x, y |-> y]
               /\ currentPollInterval' = 100
               /\ dragCheckInterval' = 0
               /\ UNCHANGED pollTimers
          ELSE UNCHANGED trackerVars
       /\ last' = TrackerLast("pointerdown", app, target, ~tracked)
       /\ UNCHANGED <<coreVars, controllerVars>>

\* Variant: the overlay opened for every sample at the top edge
showEverySample(app) ==
    /\ show(app)
    /\ UNCHANGED <<layouts, resizeTimeout, activeZone, highlight>>

\* The part of 'pointermove' and of adaptivePoll that opens the overlay
showOnce(app) ==
    IF activeApp = None
    THEN /\ show(app)
         /\ UNCHANGED <<layouts, resizeTimeout, activeZone, highlight>>
    ELSE UNCHANGED <<controllerVars, metrics>>

\* Variant: the overlay closes from the lower edge of its band on
trackZoneInclusive(y, zoneInfo) ==
    IF y >= OVERLAY_HEIGHT
    THEN /\ hide
         /\ UNCHANGED <<layouts, resizeTimeout, showTimers>>
    ELSE UNCHANGED controllerVars

\* The part of 'pointermove' below the top edge while the overlay is open;
\* zoneInfo: what findZoneAtPosition returns for the pointer
trackZone(y, zoneInfo) ==
    IF y > OVERLAY_HEIGHT
    THEN /\ hide
         /\ UNCHANGED <<layouts, resizeTimeout, showTimers>>
    ELSE IF zoneInfo # NoZone
         THEN IF activeZone # zoneInfo
              THEN /\ activateZone(zoneInfo.layoutId, zoneInfo.zoneId)
                   /\ UNCHANGED <<layouts, resizeTimeout, activeApp, overlayActive,
                                  showTimers>>
              ELSE UNCHANGED controllerVars
         ELSE IF activeZone # NoZone
              THEN /\ deactivateZone
                   /\ UNCHANGED <<layouts, resizeTimeout, activeApp, overlayActive,
                                  showTimers>>
              ELSE UNCHANGED controllerVars

\* Variant: an offset equal to the threshold counts as a drag
exceedsThresholdInclusive(dx, dy) == dx >= DRAG_THRESHOLD \/ dy >= DRAG_THRESHOLD

\* dx > DRAG_THRESHOLD || dy > DRAG_THRESHOLD on the absolute offsets from the
\* start point
exceedsThreshold(dx, dy) == dx > DRAG_THRESHOLD \/ dy > DRAG_THRESHOLD

pointermove(x, y, zoneInfo) ==
    LET exceeds == exceedsThreshold(Abs(x - start.x), Abs(y - start.y))
        ignored == draggingAppV2 = None \/ (~isDragging /\ ~exceeds)
    IN /\ dragTrackingListeners
       /\ last' = TrackerLast("pointermove", None,
                            IF ~ignored /\ y < TOP_EDGE THEN "top" ELSE None, ignored)
       /\ UNCHANGED <<innerWidth, innerHeight, uiWindows, position, states, appStateMap,
                      header, calls, preSnap, listenerVars>>
       /\ IF ignored
          THEN UNCHANGED <<trackerVars, controllerVars, metrics>>
          ELSE /\ IF ~isDragging
                  THEN /\ isDragging' = TRUE
                       /\ IF dragCheckInterval = 0
                          THEN /\ Cardinality(pollTimers) < MaxTimers
                               /\ lastPollPosition' =
                                     IF draggingAppV2 \in uiWindows
                                     THEN [x |-> position[draggingAppV2].left,
                                           y |-> position[draggingAppV2].top]
                                     ELSE lastPollPosition
                               /\ currentPollInterval' = 100
                               /\ dragCheckInterval' = NewTimerId(pollTimers)
                               /\ pollTimers' = pollTimers \cup
                                     {[id |-> NewTimerId(pollTimers), interval |-> 100]}
                          ELSE UNCHANGED <<lastPollPosition, currentPollInterval,
                                           dragCheckInterval, pollTimers>>
                       /\ UNCHANGED <<draggingAppV2, start>>
                  ELSE UNCHANGED trackerVars
               /\ IF y < TOP_EDGE
                  THEN showOnce(draggingAppV2)
                  ELSE IF activeApp # None
                       THEN trackZone(y, zoneInfo) /\ UNCHANGED metrics
                       ELSE UNCHANGED <<controllerVars, metrics>>

\* The interval adaptivePoll picks for a window that moved from p to q in
\* timeDelta ms: speed = sqrt(dx * dx + dy * dy) / timeDelta against 2.0, 0.5, 0.1
IntervalForSpeed(p, q, timeDelta) ==
    LET d2 == (q.x - p.x) * (q.x - p.x) + (q.y - p.y) * (q.y - p.y)
        t2 == timeDelta * timeDelta
    IN  IF d2 > 4 * t2 THEN MIN_INTERVAL
        ELSE IF 4 * d2 > t2 THEN 100
        ELSE IF 100 * d2 > t2 THEN 200
        ELSE MAX_INTERVAL

\* A poll timer that is armed fires; timeDelta: Date.now() - lastPollTime
adaptivePoll(t, timeDelta) ==
    LET idle == draggingAppV2 = None \/ ~isDragging
        noElement == timeDelta <= 0 \/ draggingAppV2 \notin uiWindows
        current == [x |-> position[draggingAppV2].left, y |-> position[draggingAppV2].top]
        newInterval == IntervalForSpeed(lastPollPosition, current, timeDelta)
    IN /\ t \in pollTimers
       /\ last' = TrackerLast("adaptivePoll", None,
                            IF /\ ~(idle \/ noElement)
                               /\ Abs(newInterval - currentPollInterval) <= ADJUSTMENT_THRESHOLD
                               /\ current.y < TOP_EDGE
                            THEN "top" ELSE None,
                            idle \/ noElement)
       /\ UNCHANGED <<innerWidth, innerHeight, uiWindows, position, states, appStateMap,
                      header, calls, preSnap, listenerVars>>
       /\ IF idle \/ noElement
          THEN UNCHANGED <<trackerVars, controllerVars, metrics>>
          ELSE IF Abs(newInterval - currentPollInterval) > ADJUSTMENT_THRESHOLD
               THEN /\ currentPollInterval' = newInterval
                    /\ dragCheckInterval' = NewTimerId(ClearTimer(pollTimers, dragCheckInterval))
                    /\ pollTimers' = ClearTimer(pollTimers, dragCheckInterval) \cup
                          {[id |-> NewTimerId(ClearTimer(pollTimers, dragCheckInterval)),
                            interval |-> newInterval]}
                    /\ Cardinality(pollTimers') <= MaxTimers
                    /\ UNCHANGED <<draggingAppV2, isDragging, start, lastPollPosition>>
                    /\ UNCHANGED <<controllerVars, metrics>>
               ELSE /\ lastPollPosition' = current
                    /\ UNCHANGED <<draggingAppV2, isDragging, start, dragCheckInterval,
                                   currentPollInterval, pollTimers>>
                    /\ IF current.y < TOP_EDGE
                       THEN showOnce(draggingAppV2)
                       ELSE UNCHANGED <<controllerVars, metrics>>

\* The end of a gesture in 'pointerup' and 'pointercancel': layouter.hide(),
\* then the reset of the tracker, which is not reached when hide throws
endGesture ==
    /\ hide
    /\ UNCHANGED <<layouts, resizeTimeout, showTimers>>
    /\ IF eventListeners
       THEN /\ draggingAppV2' = None
            /\ isDragging' = FALSE
            /\ pollTimers' = ClearTimer(pollTimers, dragCheckInterval)
            /\ dragCheckInterval' = 0
            /\ currentPollInterval' = 100
            /\ UNCHANGED <<start, lastPollPosition>>
       ELSE UNCHANGED trackerVars

\* 'pointerup'; zoneInfo: what findZoneAtPosition returns for the pointer;
\* throws: whether app.setPosition throws
pointerup(zoneInfo, throws) ==
    LET rect == calculateZoneRect(layouts, zoneInfo.layoutId, zoneInfo.zoneId,
                                  innerWidth, innerHeight)
    IN /\ dragTrackingListeners
       /\ IF draggingAppV2 = None
          THEN /\ last' = TrackerLast("pointerup", None, None, TRUE)
               /\ UNCHANGED <<coreVars, controllerVars, trackerVars>>
          ELSE /\ endGesture
               /\ IF activeApp # None /\ zoneInfo # NoZone /\ ~rect.isNull
                  THEN /\ snapApp(activeApp, RectToInt(rect), zoneInfo, throws)
                       /\ UNCHANGED listenerVars
                  ELSE /\ last' = TrackerLast("pointerup", None, None, FALSE)
                       /\ UNCHANGED coreVars

\* Variant: a cancel that drops the window on the zone that is lit
pointercancelDropping == pointerup(activeZone, FALSE)

pointercancel ==
    /\ dragTrackingListeners
    /\ IF draggingAppV2 = None
       THEN /\ last' = TrackerLast("pointercancel", None, None, TRUE)
            /\ UNCHANGED <<coreVars, controllerVars, trackerVars>>
       ELSE /\ endGesture
            /\ last' = TrackerLast("pointercancel", None, None, FALSE)
            /\ UNCHANGED coreVars

\* 'mouseleave' on the overlay
overlayMouseLeave ==
    /\ eventListeners
    /\ last' = TrackerLast("mouseleave", None, None, activeApp = None)
    /\ IF activeApp # None
       THEN hide /\ UNCHANGED <<layouts, resizeTimeout, showTimers>>
       ELSE UNCHANGED controllerVars
    /\ UNCHANGED <<coreVars, trackerVars>>

\* The timer of show fires; zoneInfo: what findZoneAtPosition returns for
\* this.lastMousePosition
showTimerFires(zoneInfo) ==
    /\ showTimers > 0
    /\ showTimers' = showTimers - 1
    /\ IF zoneInfo # NoZone
       THEN activateZone(zoneInfo.layoutId, zoneInfo.zoneId)
       ELSE UNCHANGED <<activeZone, highlight>>
    /\ last' = TrackerLast("showTimer", None, None, zoneInfo = NoZone)
    /\ UNCHANGED <<layouts, resizeTimeout, activeApp, overlayActive>>
    /\ UNCHANGED <<coreVars, trackerVars>>

\* ---- Spec: two windows of different identity, one with a document and one
\* without, snapped to the full zone, closed, reopened and restored one by one
\* or all at once.  snapApp and restoreApp are called on open windows (drop on
\* a zone, header button, title-bar double click); restoreAll is called while
\* no earlier call is suspended.
BatchApps == {"actorSheet", "settingsApp"}

Init == InitWith(BatchApps, {<<MIN_VIEWPORT_WIDTH, MIN_VIEWPORT_HEIGHT>>})

Next ==
    \/ \E app \in BatchApps : closeWindow(app) /\ UNCHANGED uiVars
    \/ \E app \in BatchApps : openWindow(app) /\ UNCHANGED uiVars
    \/ \E app \in BatchApps \cap uiWindows, throws \in BOOLEAN :
          snapApp(app, FullRect(innerWidth, innerHeight), ZoneFull, throws) /\ UNCHANGED uiVars
    \/ \E app \in BatchApps \cap uiWindows, throws \in BOOLEAN : restoreApp(app, throws) /\ UNCHANGED uiVars
    \/ \E thrower \in SUBSET BatchApps : calls = <<>> /\ restoreAll(thrower) /\ UNCHANGED uiVars
    \/ \E c \in 1..Len(calls), outcome \in {"doc", "null", "throw"}, thrower \in SUBSET BatchApps :
          fromUuidReturn(c, outcome, thrower) /\ UNCHANGED uiVars
    \/ \E c \in 1..Len(calls), outcome \in {"ok", "throw"}, sheet \in BatchApps,
          thrower \in SUBSET BatchApps :
          renderReturn(c, outcome, sheet, thrower) /\ UNCHANGED uiVars

Spec == Init /\ [][Next]_vars

\* ---- SpecWindow: one window on a viewport of the minimum size, under every
\* rectangle and zone, with a user who moves the window between operations.
WindowApps == {"actorSheet"}

InitWindow == InitWith(WindowApps, {<<MIN_VIEWPORT_WIDTH, MIN_VIEWPORT_HEIGHT>>})

NextWindow ==
    \/ \E app \in WindowApps, g \in UserGeometries : moveWindow(app, g) /\ UNCHANGED uiVars
    \/ \E app \in WindowApps : closeWindow(app) /\ UNCHANGED uiVars
    \/ \E app \in WindowApps : openWindow(app) /\ UNCHANGED uiVars
    \/ \E app \in WindowApps \cap uiWindows,
          in \in RectInputs(innerWidth, innerHeight), throws \in BOOLEAN :
          snapApp(app, in[1], in[2], throws) /\ UNCHANGED uiVars
    \/ \E app \in WindowApps \cap uiWindows, throws \in BOOLEAN : restoreApp(app, throws) /\ UNCHANGED uiVars
    \/ \E thrower \in SUBSET WindowApps : calls = <<>> /\ restoreAll(thrower) /\ UNCHANGED uiVars
    \/ \E c \in 1..Len(calls), outcome \in {"doc", "null", "throw"}, thrower \in SUBSET WindowApps :
          fromUuidReturn(c, outcome, thrower) /\ UNCHANGED uiVars
    \/ \E c \in 1..Len(calls), outcome \in {"ok", "throw"}, sheet \in WindowApps,
          thrower \in SUBSET WindowApps :
          renderReturn(c, outcome, sheet, thrower) /\ UNCHANGED uiVars

SpecWindow == InitWindow /\ [][NextWindow]_vars

\* ---- SpecViewport: one window and the objects that fail the validation, on
\* a viewport that is resized across the minimum size.
InitViewport == InitWith(WindowApps, Viewports)

NextViewport ==
    \/ \E v \in Viewports : onResize(v)
    \/ rebuildOverlay
    \/ \E app \in WindowApps : closeWindow(app) /\ UNCHANGED uiVars
    \/ \E app \in WindowApps : openWindow(app) /\ UNCHANGED uiVars
    \/ \E app \in (WindowApps \cap uiWindows) \cup InvalidApps,
          in \in RectInputs(innerWidth, innerHeight), throws \in BOOLEAN :
          snapApp(app, in[1], in[2], throws) /\ UNCHANGED uiVars
    \/ \E app \in (WindowApps \cap uiWindows) \cup InvalidApps, throws \in BOOLEAN :
          restoreApp(app, throws) /\ UNCHANGED uiVars

SpecViewport == InitViewport /\ [][NextViewport]_vars

\* ---- SpecRegistry: the registry driven through its own interface, the way
\* its unit tests drive it, next to the guarded call sequence of snapApp and
\* the close hooks of the two windows.
RegistryGeometries == {InitialPosition("actorSheet")} \cup UserGeometries
RegistryZones == {ZoneFull, ZoneRight}

\* What last holds after a call on the registry: log holds the record the call
\* found for the window, if any
RegistryLast(op, app) ==
    [NoLast EXCEPT !.op = op, !.app = app, !.hadState = hasState(states, app),
                   !.log = IF hasState(states, app) THEN <<getState(states, app)>>
                           ELSE <<>>]

callRegisterSnap(app, g, zoneInfo) ==
    /\ states' = registerSnap(states, app, g, zoneInfo)
    /\ last' = RegistryLast("registerSnap", app)
    /\ UNCHANGED <<innerWidth, innerHeight, uiWindows, position, appStateMap,
                   header, metrics, calls, preSnap>>

callSnapRegistry(app, g, zoneInfo) ==
    /\ states' = SnapRegistry(states, app, g, zoneInfo)
    /\ last' = RegistryLast("snapRegistry", app)
    /\ UNCHANGED <<innerWidth, innerHeight, uiWindows, position, appStateMap,
                   header, metrics, calls, preSnap>>

callMarkClosed(app) ==
    /\ states' = markClosed(states, app)
    /\ last' = RegistryLast("markClosed", app)
    /\ UNCHANGED <<innerWidth, innerHeight, uiWindows, position, appStateMap,
                   header, metrics, calls, preSnap>>

callMarkOpen(app) ==
    /\ states' = markOpen(states, app)
    /\ last' = RegistryLast("markOpen", app)
    /\ UNCHANGED <<innerWidth, innerHeight, uiWindows, position, appStateMap,
                   header, metrics, calls, preSnap>>

callRemoveState(app) ==
    /\ states' = removeState(states, app)
    /\ last' = RegistryLast("removeState", app)
    /\ UNCHANGED <<innerWidth, innerHeight, uiWindows, position, appStateMap,
                   header, metrics, calls, preSnap>>

callClearAll ==
    /\ states' = clearAll(states)
    /\ last' = [NoLast EXCEPT !.op = "clearAll", !.n0 = getSnappedCount(states)]
    /\ UNCHANGED <<innerWidth, innerHeight, uiWindows, position, appStateMap,
                   header, metrics, calls, preSnap>>

\* The window objects the registry is driven with
RegistryApps == {"actorSheet", "actorSheet2", "settingsApp"}

NextRegistry ==
    \/ \E app \in RegistryApps, g \in RegistryGeometries, zoneInfo \in RegistryZones :
          callRegisterSnap(app, g, zoneInfo) /\ UNCHANGED uiVars
    \/ \E app \in RegistryApps, g \in RegistryGeometries, zoneInfo \in RegistryZones :
          callSnapRegistry(app, g, zoneInfo) /\ UNCHANGED uiVars
    \/ \E app \in RegistryApps : callMarkClosed(app) /\ UNCHANGED uiVars
    \/ \E app \in RegistryApps : callMarkOpen(app) /\ UNCHANGED uiVars
    \/ \E app \in RegistryApps : callRemoveState(app) /\ UNCHANGED uiVars
    \/ callClearAll /\ UNCHANGED uiVars
    \/ \E app \in BatchApps : closeWindow(app) /\ UNCHANGED uiVars
    \/ \E app \in BatchApps : openWindow(app) /\ UNCHANGED uiVars

SpecRegistry == Init /\ [][NextRegistry]_vars

\* ---- SpecClamp: one window snapped to rectangles that lie inside, across
\* and outside the viewport, on viewports from the minimum size upwards.
ClampViewports == {<<800, 600>>, <<801, 650>>, <<1920, 1080>>}

\* Rectangles a caller may pass: origins of either sign around the clamp
\* limits, extents from 0 to beyond the viewport
ClampRects(w, h) ==
    {[x |-> x, y |-> y, w |-> rw, h |-> rh] :
        x \in {0 - 500, 0, w - 100, w - 99, w + 500},
        y \in {0 - 1, 0, h - 101, h - 100, h + 1},
        rw \in {0, 100, 101, w, w + 1},
        rh \in {0, 99, h, 5000}}

InitClamp == InitWith(WindowApps, ClampViewports)

NextClamp ==
    \/ \E v \in ClampViewports : onResize(v)
    \/ rebuildOverlay
    \/ \E app \in WindowApps, rect \in ClampRects(innerWidth, innerHeight),
          throws \in BOOLEAN :
          snapApp(app, rect, ZoneRight, throws) /\ UNCHANGED uiVars

SpecClamp == InitClamp /\ [][NextClamp]_vars

\* ---- SpecGates: the layout set over viewports on both sides of every
\* threshold of calculateAvailableLayouts, resized from one to another.
LayoutWidths == {300, 599, 600, 900, 1399, 1400, 1920, 2559, 2560, 3199, 3200, 3839, 3840}
LayoutHeights == {200, 399, 400, 600, 1080, 1399, 1400}

LayoutViewports ==
    {<<w, 1080>> : w \in LayoutWidths} \cup {<<1920, h>> : h \in LayoutHeights}
        \cup {<<3840, 1400>>, <<3200, 400>>, <<1400, 1400>>, <<600, 1400>>, <<900, 600>>}

InitGates == InitWith({}, LayoutViewports)

NextGates ==
    \/ \E v \in LayoutViewports : onResize(v)
    \/ rebuildOverlay
    \/ callActivateZone("full", "full")

SpecGates == InitGates /\ [][NextGates]_vars

\* ---- SpecLayout: zone lookups for ids inside and outside the current layout
\* set, on viewports the columns and rows divide and on viewports they do not.
ZoneViewports == {<<1920, 1080>>, <<301, 1400>>, <<3842, 1401>>}

\* The viewport a resize leads to
ZoneResizes == {<<600, 400>>}

\* The layouts whose zones are looked up: a column layout, a row layout and a
\* grid of each kind, as the largest viewport has them
LookupIds == {"full", "split-2", "split-6", "rows-3", "grid-2x2", "grid-2x3"}

\* The pairs of ids a zone lookup is made with, and ids no layout has
ZoneCalls ==
    LET L == calculateAvailableLayouts(3840, 1400) IN
    UNION {{<<L[i].id, L[i].zones[j].id>> : j \in 1..Len(L[i].zones)} :
              i \in {k \in 1..Len(L) : L[k].id \in LookupIds}}
        \cup {<<"full", "nowhere">>, <<"split-2", "middle">>, <<"split-9", "left">>}

InitLayout == InitWith({}, ZoneViewports)

NextLayout ==
    \/ \E v \in ZoneResizes : onResize(v)
    \/ rebuildOverlay
    \/ \E c \in ZoneCalls : callActivateZone(c[1], c[2])
    \/ callDeactivateZone

SpecLayout == InitLayout /\ [][NextLayout]_vars

\* ---- SpecDrag: one ApplicationV2 window and one AppV1 window on a 1920 x
\* 1080 viewport; the pointer goes down on a header, on a control or on the
\* content, moves across the top edge and the overlay band, over a zone and
\* off it, and is released beside the zones, while the host moves the window
\* and the timers fire.
DragApps == {"actorSheet", "settingsApp"}
DragViewports == {<<1920, 1080>>}
PointerDowns == {<<100, 100>>}
PointerMoves ==
    {<<100, 5>>, <<100, 9>>, <<100, 10>>, <<103, 100>>, <<103, 103>>, <<104, 100>>,
     <<100, 251>>}
DragZones == {NoZone, [layoutId |-> "split-2", zoneId |-> "right"]}
\* Where the drag takes the window: to the top edge
DragGeometries == {Geometry(100, 5, 400, 300)}
PollDeltas == {0, 50}

InitDrag == InitWith(DragApps, DragViewports)

NextDrag ==
    \/ \E button \in {0, 2}, target \in {"header", "control", "content"}, app \in DragApps,
          p \in PointerDowns : pointerdown(button, target, app, p[1], p[2])
    \/ \E p \in PointerMoves, zoneInfo \in DragZones : pointermove(p[1], p[2], zoneInfo)
    \/ \E t \in pollTimers, timeDelta \in PollDeltas : adaptivePoll(t, timeDelta)
    \/ pointerup(NoZone, FALSE)
    \/ pointercancel
    \/ overlayMouseLeave
    \/ \E zoneInfo \in DragZones : showTimerFires(zoneInfo)
    \/ \E g \in DragGeometries : moveWindow("actorSheet", g) /\ UNCHANGED uiVars

SpecDrag == InitDrag /\ [][NextDrag]_vars

\* ---- SpecIdentity: two window objects of one identity (the sheet of one
\* document, rendered anew after a close), open one at a time, snapped,
\* moved, closed and restored through their header buttons.
IdentityApps == {"actorSheet", "actorSheet2"}

NextIdentity ==
    \/ \E app \in IdentityApps, g \in UserGeometries : moveWindow(app, g) /\ UNCHANGED uiVars
    \/ \E app \in IdentityApps : closeWindow(app) /\ UNCHANGED uiVars
    \/ \E app \in IdentityApps : openWindow(app) /\ UNCHANGED uiVars
    \/ \E app \in IdentityApps \cap uiWindows, throws \in BOOLEAN :
          snapApp(app, FullRect(innerWidth, innerHeight), ZoneFull, throws) /\ UNCHANGED uiVars
    \/ \E app \in IdentityApps \cap uiWindows, throws \in BOOLEAN :
          restoreApp(app, throws) /\ UNCHANGED uiVars

SpecIdentity ==
    InitWith({"actorSheet"}, {<<MIN_VIEWPORT_WIDTH, MIN_VIEWPORT_HEIGHT>>})
        /\ [][NextIdentity]_vars

\* ---- SpecReentry: one document sheet, snapped, closed and reopened, with the
\* restore-all button of the scene controls clicked at any time, also while
\* an earlier click is still waiting for a document or a render.
\* onClick of the tool 'window-maximizer-restore-all'
restoreAllButton(thrower) ==
    IF ~hasSnappedWindows(states)
    THEN /\ last' = [NoLast EXCEPT !.op = "restoreAllButton", !.declined = TRUE]
         /\ UNCHANGED coreVars
    ELSE /\ Len(calls) < MaxCalls
         /\ restoreAll(thrower)

NextReentry ==
    \/ \E app \in WindowApps : closeWindow(app) /\ UNCHANGED uiVars
    \/ \E app \in WindowApps : openWindow(app) /\ UNCHANGED uiVars
    \/ \E app \in WindowApps \cap uiWindows :
          snapApp(app, FullRect(innerWidth, innerHeight), ZoneFull, FALSE) /\ UNCHANGED uiVars
    \/ restoreAllButton({}) /\ UNCHANGED uiVars
    \/ \E c \in 1..Len(calls), outcome \in {"doc", "null"} :
          fromUuidReturn(c, outcome, {}) /\ UNCHANGED uiVars
    \/ \E c \in 1..Len(calls), outcome \in {"ok", "throw"}, sheet \in WindowApps :
          renderReturn(c, outcome, sheet, {}) /\ UNCHANGED uiVars

SpecReentry == InitWindow /\ [][NextReentry]_vars

\* ---- SpecTeardown: one document sheet dragged with the pointer across the
\* top edge while the host resizes the viewport, with the module torn down
\* at any time: by the 'unload' hook, or by a caller of cleanupDragTracking.
\* SnapLayouter.cleanup(): the tracked listeners, timers and hooks go, the
\* overlay and the highlight leave the document (the detached elements keep
\* their classes and styles)
cleanup ==
    /\ eventListeners' = FALSE
    /\ resizeTimeout' = FALSE
    /\ showTimers' = 0
    /\ activeApp' = None
    /\ activeZone' = NoZone
    /\ UNCHANGED <<layouts, overlayActive, highlight>>

\* The handler of the 'unload' hook that the constructor registers
unloadHook ==
    /\ eventListeners
    /\ cleanup
    /\ UNCHANGED dragTrackingListeners
    /\ last' = [NoLast EXCEPT !.op = "unload"]
    /\ UNCHANGED <<innerWidth, innerHeight, uiWindows, position, states, appStateMap,
                   header, metrics, calls, preSnap, trackerVars>>

\* cleanupDragTracking(), for a caller that holds the export of the module
callCleanupDragTracking ==
    /\ dragTrackingListeners
    /\ dragTrackingListeners' = FALSE
    /\ pollTimers' = {}
    /\ UNCHANGED eventListeners
    /\ UNCHANGED <<draggingAppV2, isDragging, start, dragCheckInterval,
                   currentPollInterval, lastPollPosition>>
    /\ last' = [NoLast EXCEPT !.op = "cleanupDragTracking"]
    /\ UNCHANGED <<innerWidth, innerHeight, uiWindows, position, states, appStateMap,
                   header, metrics, calls, preSnap, controllerVars>>

SessionApps == {"actorSheet"}
SessionViewports == {<<1920, 1080>>, <<800, 600>>}
SessionMoves == {<<100, 5>>, <<100, 251>>}

NextTeardown ==
    \/ \E p \in PointerDowns : pointerdown(0, "header", "actorSheet", p[1], p[2])
    \/ \E p \in SessionMoves : pointermove(p[1], p[2], NoZone)
    \/ \E t \in pollTimers : adaptivePoll(t, 50)
    \/ pointerup(NoZone, FALSE)
    \/ pointercancel
    \/ showTimerFires(NoZone)
    \/ \E v \in SessionViewports : onResize(v)
    \/ rebuildOverlay
    \/ unloadHook
    \/ callCleanupDragTracking

SpecTeardown == InitWith(SessionApps, {<<1920, 1080>>}) /\ [][NextTeardown]_vars

\* ---- SpecSession: one document sheet on a viewport that the host resizes;
\* the sheet is dragged with the pointer (one gesture at a time), dropped on
\* a zone or beside the zones, closed and opened again, while the pointer
\* enters and leaves the zones of the bar.
NextSession ==
    \/ \E p \in PointerDowns :
          draggingAppV2 = None /\ pointerdown(0, "header", "actorSheet", p[1], p[2])
    \/ \E p \in SessionMoves : pointermove(p[1], p[2], NoZone)
    \/ \E t \in pollTimers : adaptivePoll(t, 50)
    \/ \E zoneInfo \in DragZones : pointerup(zoneInfo, FALSE)
    \/ pointercancel
    \/ overlayMouseLeave
    \/ \E zoneInfo \in DragZones \ {NoZone} :
          callActivateZone(zoneInfo.layoutId, zoneInfo.zoneId)
    \/ callDeactivateZone
    \/ \E v \in SessionViewports : onResize(v)
    \/ rebuildOverlay
    \/ \E app \in SessionApps : closeWindow(app) /\ UNCHANGED uiVars
    \/ \E app \in SessionApps : openWindow(app) /\ UNCHANGED uiVars

SpecSession == InitWith(SessionApps, {<<1920, 1080>>}) /\ [][NextSession]_vars

\* ---- SpecGesture: two ApplicationV2 windows on a 1920 x 1080 viewport; the
\* pointer goes down on the header of either, also while a gesture on the
\* other is under way, moves across the top edge, through the overlay band
\* and below it, over a zone and off it, and is released or cancelled over a
\* zone or beside the zones, with a position-setter that may throw, while
\* the timer of show fires and the mouse leaves the overlay.
GestureApps == {"actorSheet", "combatTracker"}
GestureMoves == {<<100, 5>>, <<100, 10>>, <<100, 250>>, <<100, 251>>, <<102, 101>>}

NextGesture ==
    \/ \E app \in GestureApps, p \in PointerDowns : pointerdown(0, "header", app, p[1], p[2])
    \/ \E p \in GestureMoves, zoneInfo \in DragZones : pointermove(p[1], p[2], zoneInfo)
    \/ \E zoneInfo \in DragZones, throws \in BOOLEAN : pointerup(zoneInfo, throws)
    \/ pointercancel
    \/ overlayMouseLeave
    \/ \E zoneInfo \in DragZones : showTimerFires(zoneInfo)

SpecGesture == InitWith(GestureApps, DragViewports) /\ [][NextGesture]_vars

\* ------------------------------------------------------------------ claims

\* C1: restoreApp on a snapped window gives the window the geometry it had
\* before the first snapApp call since it was last restored by restoreApp or
\* restoreAll, whatever rectangles those snapApp calls used and whether or
\* not the window was snapped and restored earlier (the position-setter of
\* this restoreApp call not throwing).
RoundTripRestoresGeometry ==
    [][\A app \in WindowApps :
          (restoreApp(app, FALSE) /\ MapHas(preSnap, app))
              => position'[app] = preSnap[app]]_vars

\* C2 as stated: a second registerSnap for an identity that has a record
\* leaves the original geometry of that record as the first call stored it.
RegisterSnapKeepsFirstGeometry ==
    [][\A app \in RegistryApps, g \in RegistryGeometries, zoneInfo \in RegistryZones :
          (callRegisterSnap(app, g, zoneInfo) /\ hasState(states, app))
              => getState(states', app).originalPosition
                     = getState(states, app).originalPosition]_vars

\* C2: registerSnap stores the geometry of the call it is given, replacing a
\* record of the same identity; the geometry of the first call is kept by the
\* call sequence of snapApp, which registers only when getState finds no
\* record.
RegisterSnapReplacesGuardKeeps ==
    [][\A app \in RegistryApps, g \in RegistryGeometries, zoneInfo \in RegistryZones :
          /\ callRegisterSnap(app, g, zoneInfo)
                => getState(states', app).originalPosition = g
          /\ (callSnapRegistry(app, g, zoneInfo) /\ hasState(states, app))
                => getState(states', app) = getState(states, app)]_vars

\* C2 witness: registerSnap has replaced a record that held another geometry
RegisterSnapReplacedGeometry ==
    /\ last.op = "registerSnap"
    /\ last.hadState
    /\ last.log[1].originalPosition # getState(states, last.app).originalPosition

\* C3: the summary restoreAll returns satisfies restoredOpen + reopened +
\* skipped = total, and total is the number of records the registry held when
\* the call started.
SummaryAddsUp ==
    last.op = "restoreAll"
        => /\ last.summary.restoredOpen + last.summary.reopened + last.summary.skipped
                  = last.summary.total
           /\ last.summary.total = last.n0

\* C3 witness: a call over two records, one reopened and one skipped
SummaryOfReopenedAndSkipped ==
    /\ last.op = "restoreAll"
    /\ last.summary = [restoredOpen |-> 0, reopened |-> 1, skipped |-> 1, total |-> 2]

\* C4: when restoreAll completes the registry is empty: getSnappedCount is 0
\* and hasSnappedWindows is false, also when windows failed or were skipped.
RegistryEmptyAfterRestoreAll ==
    last.op = "restoreAll"
        => getSnappedCount(states) = 0 /\ ~hasSnappedWindows(states)

\* C4 witness: a call over two records completed with one of them skipped
RestoreAllCompletedWithSkip ==
    /\ last.op = "restoreAll"
    /\ last.n0 = 2
    /\ last.summary.restoredOpen = 1
    /\ last.summary.skipped = 1
    /\ getSnappedCount(states) = 0

\* C5: in restoreAll a window whose restoration fails is counted in skipped,
\* and every other record whose window is open has had its original geometry
\* applied.
FailureSkippedOthersApplied ==
    last.op \in {"restoreAll", "restoreAllAwait"}
        => \A i \in 1..Len(last.log) :
              /\ last.log[i].failure # "none" => last.log[i].counted = "skipped"
              /\ (last.log[i].failure = "none" /\ last.log[i].found)
                    => last.log[i].applied

\* C6: in restoreAll every record whose identity matches an open window and
\* whose restoration meets no failure has its original geometry applied and
\* is counted in restoredOpen, whatever close and reopen events the window
\* went through since it was snapped.
OpenWindowCountedRestoredOpen ==
    last.op \in {"restoreAll", "restoreAllAwait"}
        => \A i \in 1..Len(last.log) :
              (last.log[i].found /\ last.log[i].failure = "none")
                  => last.log[i].applied /\ last.log[i].counted = "restoredOpen"

\* C7: when the position-setter throws inside snapApp on a window that has no
\* record, the exception does not leave snapApp, an error notification is
\* shown, the registry holds a record for the window with the geometry it had
\* before the call, and snapCount is not incremented.
SnapFailureKeepsRecord ==
    [][\A app \in BatchApps :
          (snapApp(app, FullRect(innerWidth, innerHeight), ZoneFull, TRUE)
             /\ ~hasState(states, app))
              => /\ ~last'.propagated
                 /\ last'.note = "error"
                 /\ hasState(states', app)
                 /\ getState(states', app).originalPosition = position[app]
                 /\ position' = position
                 /\ metrics'.snapCount = metrics.snapCount]_vars

\* C7 witness: snapApp has thrown on a window that had no record
SnapThrewOnUnrecordedWindow ==
    /\ last.op = "snapApp"
    /\ last.threw
    /\ ~last.hadState
    /\ hasState(states, last.app)
    /\ metrics.snapCount = 0

\* C8: when the position-setter throws inside restoreApp, the exception does
\* not leave restoreApp, an error notification is shown, and the state of the
\* window is deleted all the same: its appStateMap entry and its registry
\* record.
RestoreFailureStillCleansUp ==
    [][\A app \in BatchApps :
          (restoreApp(app, TRUE) /\ MapHas(appStateMap, app))
              => /\ ~last'.propagated
                 /\ last'.note = "error"
                 /\ ~MapHas(appStateMap', app)
                 /\ ~hasState(states', app)]_vars

\* C8 witness: restoreApp has thrown on a window that had a record
RestoreThrewOnSnappedWindow ==
    /\ last.op = "restoreApp"
    /\ last.threw
    /\ last.hadState
    /\ ~hasState(states, last.app)
    /\ ~MapHas(appStateMap, last.app)

\* C9: restoreApp on a valid window that has no record in the registry leaves
\* the geometry, the registry, the header buttons and the metrics
\* (restoreCount included) as they were.
RestoreWithoutRecordIsNoOp ==
    [][\A app \in BatchApps, throws \in BOOLEAN :
          (restoreApp(app, throws) /\ ~hasState(states, app))
              => UNCHANGED <<position, states, header, metrics>>]_vars

\* C10: a snapApp call that fails a precondition (invalid object, viewport
\* narrower than 800 or lower than 600) changes no geometry, no registry
\* record, no per-window state, no header button and no metric; on a viewport
\* of exactly 800 x 600 a valid window is snapped.
PreconditionFailureMutatesNothing ==
    [][\A app \in WindowApps \cup InvalidApps,
          in \in RectInputs(innerWidth, innerHeight), throws \in BOOLEAN :
          snapApp(app, in[1], in[2], throws)
              => /\ (InvalidApp(app) \/ innerWidth < 800 \/ innerHeight < 600)
                       => /\ last'.declined
                          /\ UNCHANGED <<position, states, appStateMap, header, metrics>>
                 /\ (~InvalidApp(app) /\ innerWidth = 800 /\ innerHeight = 600)
                       => /\ ~last'.declined
                          /\ hasState(states', app)
                          /\ MapHas(appStateMap', app)
                          /\ ~throws => position'[app] =
                                Geometry(ClampRect(in[1], 800, 600).x,
                                         ClampRect(in[1], 800, 600).y,
                                         ClampRect(in[1], 800, 600).w,
                                         ClampRect(in[1], 800, 600).h)]_vars

\* C10 witness: snapApp has declined a valid window on a 799 x 600 viewport
SnapDeclinedBelowMinimumWidth ==
    /\ last.op = "snapApp"
    /\ last.declined
    /\ last.app \in WindowApps
    /\ innerWidth = 799
    /\ innerHeight = 600
    /\ states = <<>>

\* C11: on a viewport of at least 800 x 600, for a rectangle with an origin
\* of any sign and a non-negative extent, the geometry snapApp gives the
\* window satisfies 0 <= left <= W - 100, 0 <= top <= H - 100, 0 <= width,
\* 0 <= height, left + width <= W and top + height <= H.
ClampedGeometryInsideViewport ==
    (last.op = "snapApp" /\ ~last.declined /\ ~last.threw
       /\ innerWidth >= 800 /\ innerHeight >= 600)
        => /\ 0 <= position[last.app].left
           /\ position[last.app].left <= innerWidth - 100
           /\ 0 <= position[last.app].top
           /\ position[last.app].top <= innerHeight - 100
           /\ 0 <= position[last.app].width
           /\ 0 <= position[last.app].height
           /\ position[last.app].left + position[last.app].width <= innerWidth
           /\ position[last.app].top + position[last.app].height <= innerHeight

\* C11 witness: a rectangle left of and below the viewport, wider than it, has
\* been clamped to the bottom edge band of a 1920 x 1080 viewport
SnappedRectOutsideViewport ==
    /\ last.op = "snapApp"
    /\ ~last.threw
    /\ innerWidth = 1920
    /\ position["actorSheet"] = Geometry(0, 980, 1920, 100)

\* C14: the layout set always holds the layout 'full' with the single zone
\* 'full' at column 0, row 0 of a 1 x 1 grid, and a lookup of ('full', 'full')
\* gives the highlight the rectangle {x: 0, y: 0, w: width, h: height} of the
\* viewport current at the lookup.
FullLayoutAlwaysPresent ==
    /\ FindId(layouts, "full") # 0
    /\ layouts[FindId(layouts, "full")] = Layout("full", 1, 1, <<Zone("full", 0, 0)>>)
    /\ (last.op = "activateZone" /\ innerWidth >= 300 /\ innerHeight >= 200)
          => /\ activeZone = ZoneFull
             /\ last.note # "noRect"
             /\ highlight.display = "block"
             /\ highlight.rect = Rect(DblFromInt(0), DblFromInt(0),
                                      DblFromInt(innerWidth), DblFromInt(innerHeight))

\* C14 witness: on the smallest viewport, 300 x 1080, where no other layout
\* than 'full' and the row layouts fits, the zone 'full' has been looked up
FullZoneLookedUpOnNarrowViewport ==
    /\ last.op = "activateZone"
    /\ innerWidth = 300
    /\ innerHeight = 1080
    /\ activeZone = ZoneFull
    /\ highlight.rect.w = DblFromInt(300)
    /\ Len(layouts) = 2

\* The rectangles of all zones of a layout, in the order of its zones
ZoneRectsOf(layout) ==
    [j \in 1..Len(layout.zones) |->
        calculateZoneRect(layouts, layout.id, layout.zones[j].id, innerWidth, innerHeight)]

\* r1.w * r1.h + r2.w * r2.h + ... over the first n rectangles, added left to right
RECURSIVE SumAreas(_, _)
SumAreas(rects, n) ==
    IF n = 1 THEN DblMul(rects[1].w, rects[1].h)
    ELSE DblAdd(SumAreas(rects, n - 1), DblMul(rects[n].w, rects[n].h))

\* Two rectangles share interior points
Overlap(r1, r2) ==
    /\ DblLess(r1.x, DblAdd(r2.x, r2.w))
    /\ DblLess(r2.x, DblAdd(r1.x, r1.w))
    /\ DblLess(r1.y, DblAdd(r2.y, r2.h))
    /\ DblLess(r2.y, DblAdd(r1.y, r1.h))

\* The layout the last zone lookup found its zone in
LookedUpLayout == layouts[FindId(layouts, activeZone.layoutId)]

\* A zone of a layout generated for the current viewport has just been looked up
ZoneOfCurrentLayoutLookedUp ==
    /\ last.op = "activateZone"
    /\ last.note # "noRect"
    /\ layouts = calculateAvailableLayouts(innerWidth, innerHeight)

\* C15: for a layout generated for the current viewport, no two zone
\* rectangles overlap, every zone rectangle lies inside [0, width] x [0, height]
\* and the areas w * h of the zones add up to width * height.
ZonesPartitionViewportExactly ==
    ZoneOfCurrentLayoutLookedUp =>
        LET rects == ZoneRectsOf(LookedUpLayout) IN
        /\ \A i, j \in 1..Len(rects) : i < j => ~Overlap(rects[i], rects[j])
        /\ \A i \in 1..Len(rects) :
              /\ DblLeq(DblAdd(rects[i].x, rects[i].w), DblFromInt(innerWidth))
              /\ DblLeq(DblAdd(rects[i].y, rects[i].h), DblFromInt(innerHeight))
        /\ SumAreas(rects, Len(rects)) = DblMul(DblFromInt(innerWidth), DblFromInt(innerHeight))

\* The rectangle of four integers as JS numbers
IntRect(x, y, w, h) == Rect(DblFromInt(x), DblFromInt(y), DblFromInt(w), DblFromInt(h))

\* C16: a lookup of a zone at (col, row) of a layout of cols columns and rows
\* rows gives the rectangle x = col * (width / cols), y = row * (height / rows),
\* w = (width / cols) * colSpan, h = (height / rows) * rowSpan, the spans being
\* 1 where the zone has none; at 1920 x 1080 split-2/left is {0, 0, 960, 1080}
\* and split-2/right is {960, 0, 960, 1080}.
ZoneRectFollowsGrid ==
    /\ (last.op = "activateZone" /\ FindId(layouts, activeZone.layoutId) # 0
          /\ FindId(LookedUpLayout.zones, activeZone.zoneId) # 0)
         => LET zone == LookedUpLayout.zones[FindId(LookedUpLayout.zones, activeZone.zoneId)]
                cw == DblDivInt(innerWidth, LookedUpLayout.cols)
                rh == DblDivInt(innerHeight, LookedUpLayout.rows)
                colSpan == IF "colSpan" \in DOMAIN zone THEN zone.colSpan ELSE 1
                rowSpan == IF "rowSpan" \in DOMAIN zone THEN zone.rowSpan ELSE 1
            IN  /\ last.note # "noRect"
                /\ highlight.display = "block"
                /\ highlight.rect.x = DblMul(DblFromInt(zone.col), cw)
                /\ highlight.rect.y = DblMul(DblFromInt(zone.row), rh)
                /\ highlight.rect.w = DblMul(cw, DblFromInt(colSpan))
                /\ highlight.rect.h = DblMul(rh, DblFromInt(rowSpan))
    /\ (last.op = "activateZone" /\ innerWidth = 1920 /\ innerHeight = 1080
          /\ activeZone.layoutId = "split-2")
         => /\ activeZone.zoneId = "left" => highlight.rect = IntRect(0, 0, 960, 1080)
            /\ activeZone.zoneId = "right" => highlight.rect = IntRect(960, 0, 960, 1080)

\* C16 witness: the last zone of the six columns has been looked up on a
\* viewport of 3842 x 1401, whose width 6 does not divide: the zone is between
\* 640 and 641 wide and starts between 3201 and 3202
LastColumnLookedUpOnOddViewport ==
    /\ last.op = "activateZone"
    /\ innerWidth = 3842
    /\ innerHeight = 1401
    /\ activeZone = [layoutId |-> "split-6", zoneId |-> "col-5"]
    /\ DblLess(DblFromInt(640), highlight.rect.w)
    /\ DblLess(highlight.rect.w, DblFromInt(641))
    /\ DblLess(DblFromInt(3201), highlight.rect.x)
    /\ DblLess(highlight.rect.x, DblFromInt(3202))
    /\ highlight.rect.h = DblFromInt(1401)

\* C17: in every state, a lookup with a layout id that is not in this.layouts
\* and is not 'full', or with a zone id that is not a zone of the named layout
\* (the layout 'full' included), finds no rectangle.
UnknownIdsFindNoRect ==
    last.op = "activateZone" =>
        /\ (FindId(layouts, activeZone.layoutId) = 0 /\ activeZone.layoutId # "full")
              => last.note = "noRect"
        /\ (FindId(layouts, activeZone.layoutId) # 0
              /\ FindId(LookedUpLayout.zones, activeZone.zoneId) = 0)
              => last.note = "noRect"
        /\ (activeZone.layoutId = "full" /\ activeZone.zoneId # "full")
              => last.note = "noRect"

\* C17 witness: after a resize to 600 x 400 and the rebuild that follows, the
\* six-column layout of the wider viewport is looked up and not found, while
\* the highlight still shows the rectangle of an earlier lookup
RemovedLayoutLookedUp ==
    /\ last.op = "activateZone"
    /\ last.note = "noRect"
    /\ innerWidth = 600
    /\ activeZone = [layoutId |-> "split-6", zoneId |-> "col-5"]
    /\ FindId(layouts, "split-6") = 0
    /\ highlight.display = "block"

\* this.layouts has just been generated for the current viewport
LayoutsJustGenerated == last.op \in {"init", "rebuildOverlay"}

HasLayout(id) == FindId(layouts, id) # 0

ColumnLayoutId(n) ==
    CASE n = 2 -> "split-2" [] n = 3 -> "split-3" [] n = 4 -> "split-4" [] n = 6 -> "split-6"

RowLayoutId(m) == CASE m = 2 -> "rows-2" [] m = 3 -> "rows-3"

\* C18 as stated: with maxCols = floor(width / 300), the N-column layout is
\* generated exactly when maxCols >= N, and width >= 1920 for N = 4, and
\* width >= 2560 for N = 6.
ColumnGatingAsStated ==
    LayoutsJustGenerated =>
        \A n \in {2, 3, 4, 6} :
            HasLayout(ColumnLayoutId(n)) <=>
                /\ innerWidth \div 300 >= n
                /\ n = 4 => innerWidth >= 1920
                /\ n = 6 => innerWidth >= 2560

\* C18 amended: the N-column layout is generated exactly when maxCols >= N,
\* and width >= 1400 for N = 3, width >= 2560 for N = 4, width >= 3840 for
\* N = 6; a 1920-wide viewport gets the 2- and 3-column layouts only.
ColumnGatingByWidth ==
    LayoutsJustGenerated =>
        /\ \A n \in {2, 3, 4, 6} :
              HasLayout(ColumnLayoutId(n)) <=>
                  /\ innerWidth \div 300 >= n
                  /\ n = 3 => innerWidth >= 1400
                  /\ n = 4 => innerWidth >= 2560
                  /\ n = 6 => innerWidth >= 3840
        /\ innerWidth = 1920 =>
              /\ HasLayout("split-2") /\ HasLayout("split-3")
              /\ ~HasLayout("split-4") /\ ~HasLayout("split-6")

\* C18 witness: the layouts have been rebuilt after a resize to a width of
\* 2559, where eight columns of 300 fit and the 4-column layout is not offered
RebuiltJustBelowFourColumns ==
    /\ last.op = "rebuildOverlay"
    /\ innerWidth = 2559
    /\ HasLayout("split-3")
    /\ ~HasLayout("split-4")

\* C19 as stated: with maxRows = floor(height / 200), the M-row layout is
\* generated exactly when maxRows >= M, and height >= 1080 for M = 3.
RowGatingAsStated ==
    LayoutsJustGenerated =>
        \A m \in {2, 3} :
            HasLayout(RowLayoutId(m)) <=>
                /\ innerHeight \div 200 >= m
                /\ m = 3 => innerHeight >= 1080

\* C19 amended: the M-row layout is generated exactly when maxRows >= M, and
\* height >= 1400 for M = 3; a 1080-high viewport gets the 2-row layout only.
RowGatingByHeight ==
    LayoutsJustGenerated =>
        /\ \A m \in {2, 3} :
              HasLayout(RowLayoutId(m)) <=>
                  /\ innerHeight \div 200 >= m
                  /\ m = 3 => innerHeight >= 1400
        /\ innerHeight = 1080 => HasLayout("rows-2") /\ ~HasLayout("rows-3")

\* C19 witness: the layouts have been rebuilt after a resize to a height of
\* 1399, where six rows of 200 fit and the 3-row layout is not offered
RebuiltJustBelowThreeRows ==
    /\ last.op = "rebuildOverlay"
    /\ innerHeight = 1399
    /\ HasLayout("rows-2")
    /\ ~HasLayout("rows-3")

\* C20: whenever this.layouts holds the grid of C columns by R rows (grid-2x2,
\* grid-4x2, grid-2x3, grid-3x3) it holds the C-column layout and the R-row
\* layout as well.
GridImpliesColumnsAndRows ==
    /\ HasLayout("grid-2x2") => HasLayout("split-2") /\ HasLayout("rows-2")
    /\ HasLayout("grid-4x2") => HasLayout("split-4") /\ HasLayout("rows-2")
    /\ HasLayout("grid-2x3") => HasLayout("split-2") /\ HasLayout("rows-3")
    /\ HasLayout("grid-3x3") => HasLayout("split-3") /\ HasLayout("rows-3")

\* C20 witness: the layouts have been rebuilt for 3200 x 400, the smallest
\* viewport with the 4 x 2 grid
RebuiltWithWideGrid ==
    /\ last.op = "rebuildOverlay"
    /\ innerWidth = 3200
    /\ innerHeight = 400
    /\ HasLayout("grid-4x2")
    /\ HasLayout("split-4")
    /\ ~HasLayout("rows-3")

\* C12: a pointer-move sample with Y < 10 of a drag, and a poll tick that sees
\* the window top < 10, opens the overlay if it is closed, raising the
\* overlay-show counter by 1, and leaves the counter alone if it is open; the
\* counter rises by 1 only, and only while the overlay is closed, so between two
\* rises the overlay has been hidden.
ShowOncePerActivation ==
    [][/\ metrics'.overlayShowCount # metrics.overlayShowCount
            => /\ activeApp = None
               /\ activeApp' # None
               /\ metrics'.overlayShowCount = metrics.overlayShowCount + 1
       /\ (last'.op \in {"pointermove", "adaptivePoll"} /\ last'.note = "top")
            => /\ activeApp' # None
               /\ overlayActive'
               /\ metrics'.overlayShowCount =
                     metrics.overlayShowCount + (IF activeApp = None THEN 1 ELSE 0)]_vars

\* C12 witness: a sample at the top edge has arrived after the overlay was
\* opened and the timer of show had fired, and the poll has seen the window at
\* the top edge as well; the counter stands at 1
LaterSampleAtTopEdge ==
    /\ last.op = "pointermove"
    /\ last.note = "top"
    /\ activeApp = "actorSheet"
    /\ showTimers = 0
    /\ metrics.overlayShowCount = 1
    /\ position["actorSheet"].top < TOP_EDGE
    /\ lastPollPosition.y < TOP_EDGE

\* C13: a pointer-down on a control inside a drag handle changes nothing of
\* the tracker, the overlay and the counters, so an idle tracker stays idle with
\* no tracked window; and while no window is tracked a pointer-move opens and
\* hides no overlay, activates no zone and arms no poll timer.
ControlPointerDownStaysIdle ==
    [][/\ (last'.op = "pointerdown" /\ last'.note = "control")
            => /\ UNCHANGED <<trackerVars, controllerVars, metrics>>
               /\ draggingAppV2 = None => draggingAppV2' = None
       /\ (last'.op = "pointermove" /\ draggingAppV2 = None)
            => UNCHANGED <<trackerVars, controllerVars, metrics>>]_vars

\* C13 witness: the pointer has gone down on a control in the header of the
\* ApplicationV2 window while the tracker was idle
PointerDownOnControl ==
    /\ last.op = "pointerdown"
    /\ last.note = "control"
    /\ last.app = "actorSheet"
    /\ last.declined
    /\ draggingAppV2 = None
    /\ pollTimers = {}
    /\ activeApp = None

\* C21: when the host reports a window closed, the registry keeps the record
\* of its identity with originalPosition, zoneInfo and documentInfo as they
\* were and isOpen false, and every other record as it was; markClosed and
\* markOpen for an identity that has no record leave the registry as it was.
CloseKeepsRecord ==
    [][/\ \A app \in BatchApps :
              (closeWindow(app) /\ hasState(states, app))
                  => /\ Len(states') = Len(states)
                     /\ \A i \in 1..Len(states) :
                           states'[i] = IF states[i].appKey = getAppKey(app)
                                        THEN [states[i] EXCEPT !.isOpen = FALSE]
                                        ELSE states[i]
       /\ \A app \in RegistryApps :
              ((callMarkClosed(app) \/ callMarkOpen(app)) /\ ~hasState(states, app))
                  => states' = states]_vars

\* C21 witness: the document sheet, registered at the right half, is closed
\* and its record is still held, marked closed, with its document reference;
\* markOpen has just been called for the settings window, which has no record
ClosedSheetKeepsRecord ==
    /\ "actorSheet" \notin uiWindows
    /\ hasState(states, "actorSheet")
    /\ ~getState(states, "actorSheet").isOpen
    /\ getState(states, "actorSheet").zoneInfo = ZoneRight
    /\ getState(states, "actorSheet").originalPosition = InitialPosition("actorSheet")
    /\ getState(states, "actorSheet").documentInfo.uuid = "Actor.A"
    /\ last.op = "markOpen"
    /\ last.app = "settingsApp"
    /\ ~last.hadState
    /\ Len(states) = 1

\* C23: at most one poll timer is armed at any time, and while the tracker is
\* idle (no window tracked) no poll timer is armed, whatever sequence of
\* pointer-down, pointer-move, pointer-up, pointer-cancel and poll ticks led
\* there, a pointer-down during a tracked gesture included.
OnePollTimerPerGesture ==
    /\ Cardinality(pollTimers) <= 1
    /\ draggingAppV2 = None => pollTimers = {}

\* C30: after a pointer-down on a drag handle, a pointer-move whose horizontal
\* and vertical offsets from the start point are both at most 3px leaves the
\* tracker in PotentialDrag and changes nothing: no overlay is shown or hidden,
\* no zone is activated or deactivated and no poll timer is armed; the first
\* pointer-move with an offset above 3px makes the tracker Dragging and arms
\* exactly one poll timer, whose handle the tracker holds.
ThresholdGatesDragging ==
    [][\A p \in PointerMoves, zoneInfo \in DragZones :
          (pointermove(p[1], p[2], zoneInfo) /\ draggingAppV2 # None /\ ~isDragging)
              => IF Abs(p[1] - start.x) <= 3 /\ Abs(p[2] - start.y) <= 3
                 THEN UNCHANGED <<trackerVars, controllerVars, metrics>>
                 ELSE /\ isDragging'
                      /\ draggingAppV2' = draggingAppV2
                      /\ pollTimers \subseteq pollTimers'
                      /\ Cardinality(pollTimers' \ pollTimers) = 1
                      /\ \A t \in pollTimers' \ pollTimers :
                            t.id = dragCheckInterval' /\ t.interval = 100]_vars

\* C30 witness: the first pointer-move beyond the threshold has made the
\* tracker Dragging and armed the first poll timer, with the overlay closed
ThresholdCrossed ==
    /\ last.op = "pointermove"
    /\ ~last.declined
    /\ draggingAppV2 = "actorSheet"
    /\ isDragging
    /\ dragCheckInterval = 1
    /\ pollTimers = {[id |-> 1, interval |-> 100]}
    /\ activeApp = None
    /\ metrics.overlayShowCount = 0

\* C24: in every reachable state an open window has per-window snap state (its
\* header toggle would restore it) if and only if the registry holds a record
\* for its identity, after any sequence of snapApp, restoreApp, restoreAll with
\* any per-window failures, close and reopen events.
SnappedIffRecorded ==
    \A app \in uiWindows : MapHas(appStateMap, app) <=> hasState(states, app)

\* C25: in every reachable state the record of a window that is open has
\* isOpen = TRUE, so also after the window was closed and opened again and
\* after it was snapped again once reopened.
OpenWindowRecordIsOpen ==
    \A app \in uiWindows : hasState(states, app) => getState(states, app).isOpen

\* C29: when a restoreAll call completes, the records it removes from the
\* registry are the records it counted: the registry holds exactly total
\* records right before the call clears it, whatever snapApp, restoreApp and
\* close events ran while the call was suspended.
RestoreAllRemovesWhatItCounted ==
    [][last'.op = "restoreAll" => Len(states) = last'.summary.total]_vars

\* C27: restoreApp on an open window whose identity has a record applies the
\* originalPosition of that record to the window (or meets a throwing
\* position-setter in the attempt) and then deletes the record, also when the
\* window is another object than the one that was snapped; it deletes no
\* record whose geometry it has not tried to apply.
RestoreKeyedByIdentity ==
    [][\A app \in IdentityApps, throws \in BOOLEAN :
          (restoreApp(app, throws) /\ hasState(states, app))
              => /\ ~hasState(states', app)
                 /\ \/ last'.threw
                    \/ position'[app] = getState(states, app).originalPosition]_vars

\* C28: at any time at most one recreation (the lookup of the document, then
\* the render of its sheet) is in flight, and no two recreations in flight are
\* for the same document, also when restoreAll is started while an earlier
\* restoreAll is suspended.
OneRecreationAtATime ==
    /\ Len(calls) <= 1
    /\ \A c1, c2 \in 1..Len(calls) :
          c1 # c2 => Head(calls[c1].rest).state.documentInfo.uuid
                        # Head(calls[c2].rest).state.documentInfo.uuid

\* C22: after a teardown (the 'unload' hook, or a teardown call) no listener,
\* hook or timer of the drag tracker or of SnapLayouter is left: nothing of
\* the module runs on a later pointer event, resize, close notification or
\* timer tick.
NothingLeftAfterTeardown ==
    (~eventListeners \/ ~dragTrackingListeners)
        => /\ ~eventListeners
           /\ ~dragTrackingListeners
           /\ pollTimers = {}
           /\ showTimers = 0
           /\ ~resizeTimeout

\* The identities with a record, each with the geometry its record keeps
originalGeometries(S) == [k \in KeysOf(S) |-> S[IndexOf(S, k)].originalPosition]

\* C26: only snapApp, restoreApp and restoreAll change which identities have
\* a record and what geometry a record keeps: the overlay opening and
\* closing, a zone lighting up or going dark, a pointer event that is not a
\* drop on a zone, a poll tick, a resize and a close notification leave both
\* as they are.
OnlySnapAndRestoreChangeRecords ==
    [][last'.op \notin {"snapApp", "restoreApp", "restoreAll", "restoreAllAwait",
                        "fromUuid", "clearAll"}
          => originalGeometries(states') = originalGeometries(states)]_vars

\* The sheet was dropped on a zone and then closed: its record is there
SnappedSheetClosed ==
    /\ last.op = "host"
    /\ uiWindows = {}
    /\ Len(states) = 1
    /\ ~states[1].isOpen
    /\ metrics.overlayShowCount > 0

\* C39: on a viewport of at least 300 x 200 every rectangle calculateZoneRect
\* returns is at least MIN_ZONE_WIDTH wide and MIN_ZONE_HEIGHT high, also
\* between a resize and the rebuild of the layouts that follows it.
ZoneRectNeverBelowMinimum ==
    (last.op = "activateZone" /\ last.note # "noRect")
        => /\ DblLeq(DblFromInt(MIN_ZONE_WIDTH), highlight.rect.w)
           /\ DblLeq(DblFromInt(MIN_ZONE_HEIGHT), highlight.rect.h)

\* C35: in every state the current poll interval is one of 50, 100, 200 and
\* 500 and is the period of every poll timer that is armed.
PollIntervalIsTimerPeriod ==
    /\ currentPollInterval \in {MIN_INTERVAL, 100, 200, MAX_INTERVAL}
    /\ \A t \in pollTimers : t.interval = currentPollInterval

\* C31: a pointerup that ends a tracked gesture, before or after the drag
\* threshold, over a zone or beside the zones, with a position-setter that
\* throws or not, leaves the tracker idle, the overlay closed, activeApp
\* and activeZone cleared; it calls snapApp exactly when the overlay was
\* open and a zone with a rectangle is under the pointer.
PointerUpEndsGesture ==
    [][\A zoneInfo \in DragZones, throws \in BOOLEAN :
          (pointerup(zoneInfo, throws) /\ draggingAppV2 # None)
              => /\ draggingAppV2' = None
                 /\ ~isDragging'
                 /\ dragCheckInterval' = 0
                 /\ ~overlayActive'
                 /\ activeApp' = None
                 /\ activeZone' = NoZone
                 /\ last'.op = "snapApp"
                       <=> /\ overlayActive
                           /\ zoneInfo # NoZone
                           /\ ~calculateZoneRect(layouts, zoneInfo.layoutId, zoneInfo.zoneId,
                                                 innerWidth, innerHeight).isNull]_vars

\* The pointer was released over a zone and the position-setter threw
GestureEndedByFailedDrop ==
    /\ last.op = "snapApp"
    /\ last.threw
    /\ draggingAppV2 = None
    /\ activeApp = None
    /\ metrics.overlayShowCount > 0

\* C32: a pointercancel during a tracked gesture leaves the tracker idle and
\* the overlay closed with no zone lit, and changes no window geometry, no
\* record of the registry or of the snap state and no counter, also when a
\* zone was lit under the pointer.
PointerCancelNeverDrops ==
    [][(pointercancel /\ draggingAppV2 # None)
          => /\ draggingAppV2' = None
             /\ ~isDragging'
             /\ dragCheckInterval' = 0
             /\ ~overlayActive'
             /\ activeApp' = None
             /\ activeZone' = NoZone
             /\ highlight'.display = "none"
             /\ UNCHANGED <<position, states, appStateMap, header, metrics>>]_vars

\* A gesture was cancelled after a zone had been lit
GestureCancelledOverZone ==
    /\ last.op = "pointercancel"
    /\ ~last.declined
    /\ draggingAppV2 = None
    /\ highlight.rect # NoRect
    /\ highlight.display = "none"
    /\ states = <<>>

\* C33: during a drag with the overlay open, a pointermove with Y above 250
\* closes the overlay (no zone lit, activeApp null); one with Y from 10 to
\* 250 leaves it open.
SampleBelowBandHides ==
    [][\A p \in GestureMoves, zoneInfo \in DragZones :
          (pointermove(p[1], p[2], zoneInfo) /\ draggingAppV2 # None /\ isDragging
              /\ overlayActive)
              => IF p[2] > OVERLAY_HEIGHT
                 THEN /\ ~overlayActive'
                      /\ activeApp' = None
                      /\ activeZone' = NoZone
                      /\ highlight'.display = "none"
                 ELSE p[2] >= TOP_EDGE => (overlayActive' /\ activeApp' = activeApp)]_vars

\* The pointer left the band during a drag with a zone lit before
OverlayClosedBelowBand ==
    /\ last.op = "pointermove"
    /\ ~last.declined
    /\ isDragging
    /\ ~overlayActive
    /\ highlight.rect # NoRect
    /\ highlight.display = "none"

\* C34: during a drag with the overlay open, after a pointermove with Y up to
\* 250 (Y below 10 included) activeZone is the zone under the pointer, or no
\* zone when the pointer is over none.
ActiveZoneFollowsPointer ==
    [][\A p \in GestureMoves, zoneInfo \in DragZones :
          (pointermove(p[1], p[2], zoneInfo) /\ draggingAppV2 # None /\ isDragging
              /\ overlayActive /\ p[2] <= OVERLAY_HEIGHT)
              => activeZone' = zoneInfo]_vars

\* C36: in every state with no active window no zone is active and the
\* highlight is not shown.
NoZoneWhileOverlayClosed ==
    activeApp = None => (activeZone = NoZone /\ highlight.display # "block")

\* C38: the window a pointerup snaps is the window whose header received
\* the pointerdown of the gesture the pointerup ends.
DropSnapsDraggedWindow ==
    [][\A zoneInfo \in DragZones, throws \in BOOLEAN :
          (pointerup(zoneInfo, throws) /\ draggingAppV2 # None /\ last'.op = "snapApp")
              => last'.app = draggingAppV2]_vars

\* C37: after every snapApp, restoreApp and restoreAll, with or without a
\* throw of the position-setter, the header button of every open window
\* reads 'Restore' if the window is snapped and 'Maximize' if it is not.
HeaderShowsSnapStatus ==
    (last.op \in {"snapApp", "restoreApp", "restoreAll"} /\ ~last.declined)
        => \A app \in uiWindows :
              /\ MapHas(header, app)
              /\ header[app] = IF hasState(states, app) THEN "Restore" ELSE "Maximize"

====
